---- MODULE Spec2Model ----
(***************************************************************************)
(* A model of mvt-wrangler: the ordered concurrent pipeline of             *)
(* process_tiles (src/src/processing.rs) and the per-tile transform with   *)
(* its filter resolution (src/src/transform.rs, src/src/filtering).        *)
(***************************************************************************)
EXTENDS Integers, Sequences, FiniteSets, TLC

(* ------------------------------ bounds --------------------------------- *)
\* number of tiles the directory iterator yields (coords_count)
NumTiles == 4
\* number of tiles of a long archive, for the fault-free runs of SpecLong
LongTiles == 8
\* concurrency_limit: number of reader tasks
NumReaders == 2
\* number of rayon threads driving the par_bridge closure
NumTransformers == 2
\* capacity of the bounded input and output channels, scaled down
QUEUE_CAPACITY == 1
\* injected stage failures per run (I/O error, transform error, add_tile error)
MaxFaults == 1
MaxFeatures == 2
MaxRegions == 2
\* layers of the tiles that have more than one layer
MaxLayers == 2
\* the width of the integers that are 64 bits wide in the program: u64 is
\* 0 .. 2^IntBits - 1, i64 is -2^(IntBits - 1) .. 2^(IntBits - 1) - 1, and a
\* cast between them keeps the low IntBits bits
IntBits == 6
\* arguments of an operator in the expressions given to the compiler
MaxArgs == 3
Extent == 2

Readers == 1..NumReaders
Transformers == 1..NumTransformers
NoTile == -1

\* the tasks spawned on the JoinSet
EnumTask == <<"enumerator", 0>>
StageTask == <<"transformers", 0>>
WriterTask == <<"writer", 0>>
ReaderTask(r) == <<"reader", r>>
NoTask == <<"none", 0>>
NumTasks == 1 + NumReaders + 2

VARIABLES
    nTiles,      \* coords_count: the number of tiles in the input archive
    enumPc,      \* enumerator task: "run" | "done" | "panicked"
    enumPos,     \* next sequence index the enumerator sends
    coordsQ,     \* unbounded coordinate channel
    rdPc,        \* reader r: "recv" | "hold" | "done" | "failed" | "aborted"
    rdTile,      \* the tile a reader holds between recv and send_async
    inQ,         \* bounded input channel
    inTxAlive,   \* the in_tx handle owned by process_tiles itself
    trPc,        \* rayon thread t: "wait" | "work" | "ret"
    trTile,      \* the tile a rayon thread is transforming
    stPc,        \* transformer task: "run" | "done" | "failed"
    stErr,       \* try_for_each_with has seen an Err (the consumer is full)
    stPanic,     \* a closure call panicked (rethrown when the stage joins)
    outQ,        \* bounded output channel
    wrPc,        \* writer task: "recv" | "done" | "failed"
    next,        \* writer: next sequence index to write
    buf,         \* writer: reorder buffer (keys of the BTreeMap)
    written,     \* the sequence of add_tile calls that succeeded
    finalized,   \* number of finalize calls on the output archive
    completed,   \* JoinSet: finished tasks not yet joined, in completion order
    joinLog,     \* the results join_next has handed to the supervisor
    returned,    \* process_tiles: "none" | "Ok" | "Err"
    retTask,     \* the task whose error process_tiles returned
    failLog,     \* failed tasks, in the order they failed
    faults,      \* injected failures so far
    failedTiles, \* tiles whose transform returned an error
    inTile,      \* a decoded input tile with its coordinates
    filterCollection,  \* the Option<&FilterCollection> of a transform call
    filterGeometry,    \* the Option<&Geometry> given to transform_tile
    outTile,     \* the result of the transform call
    tileCompression,   \* the archive's tile compression
    step,        \* which function was applied: "input" before any
    probe,       \* a should_remove_feature / should_remove_tag call
    exprIn,      \* the input of a call into the expression code
    exprOut,     \* what the call returned
    exprStep,    \* which function was called: "input" before any
    runArgs,     \* run: what the command line and the file system hold
    runPc,       \* run: the statement lib.rs::run is at
    outputFile,  \* the output path: "absent" | "stale" | "created"
    runResult,   \* run: "none" | "Ok" | "Err" | "Panic"
    indexIn,     \* a compiled filter collection and a query geometry
    indexOut,    \* what get_filter_features returned (indexes of features)
    indexStep    \* "input" before the query, "get_filter_features" after

pipeVars == <<enumPc, enumPos, coordsQ, rdPc, rdTile, inQ, inTxAlive, trPc,
              trTile, stPc, stErr, stPanic, outQ, wrPc, next, buf, written,
              finalized, completed, joinLog, returned, retTask, failLog, faults,
              failedTiles>>

\* state no step of the pipeline changes
xfVars == <<inTile, filterCollection, filterGeometry, tileCompression,
            outTile, step, probe>>
exprVars == <<exprIn, exprOut, exprStep>>
runVars == <<runArgs, runPc, outputFile, runResult>>
indexVars == <<indexIn, indexOut, indexStep>>
otherVars == <<nTiles, xfVars, exprVars, runVars, indexVars>>

vars == <<pipeVars, otherVars>>

(* ------------------------ strings and JSON values ---------------------- *)
\* Strings are sequences of characters: Len, SubSeq and \o apply to them.

\* str::starts_with
StartsWith(s, p) == Len(p) <= Len(s) /\ SubSeq(s, 1, Len(p)) = p

\* str::ends_with
EndsWith(s, p) ==
    Len(p) <= Len(s) /\ SubSeq(s, Len(s) - Len(p) + 1, Len(s)) = p

\* serde_json::Value, one record shape for every variant
\* (a Number that is an i64 carries the integer in n, any other Number its
\* decimal rendering in s; the members of an Object are not looked at)
JNull == [t |-> "null", b |-> FALSE, s |-> "", n |-> 0, a |-> <<>>]
JBool(b) == [t |-> "bool", b |-> b, s |-> "", n |-> 0, a |-> <<>>]
JStr(s) == [t |-> "str", b |-> FALSE, s |-> s, n |-> 0, a |-> <<>>]
JNum(n) == [t |-> "num", b |-> FALSE, s |-> "", n |-> n, a |-> <<>>]
JFloat(s) == [t |-> "float", b |-> FALSE, s |-> s, n |-> 0, a |-> <<>>]
JArr(a) == [t |-> "arr", b |-> FALSE, s |-> "", n |-> 0, a |-> a]
JObj == [t |-> "obj", b |-> FALSE, s |-> "{}", n |-> 0, a |-> <<>>]
\* Option<Expression>::None
NoExpr == [t |-> "absent", b |-> FALSE, s |-> "", n |-> 0, a |-> <<>>]

\* i64::to_string
RECURSIVE NatToString(_)
NatToString(n) ==
    LET digit == SubSeq("0123456789", (n % 10) + 1, (n % 10) + 1)
    IN IF n < 10 THEN digit ELSE NatToString(n \div 10) \o digit

i64_to_string(n) == IF n < 0 THEN "-" \o NatToString(-n) ELSE NatToString(n)

\* anyhow::Result
Ok(v) == [ok |-> TRUE, v |-> v]
Err == [ok |-> FALSE, v |-> FALSE]

(* ------------------------------ MVT tiles ------------------------------ *)
\* mvt::tile::Value
StringValue(s) == [kind |-> "string", s |-> s, b |-> FALSE, n |-> 0]
BoolValue(b) == [kind |-> "bool", s |-> "", b |-> b, n |-> 0]
IntValue(i) == [kind |-> "int", s |-> "", b |-> FALSE, n |-> i]
UintValue(u) == [kind |-> "uint", s |-> "", b |-> FALSE, n |-> u]
SintValue(i) == [kind |-> "sint", s |-> "", b |-> FALSE, n |-> i]

\* the ranges of u64 and i64, and the cast `u as i64`
U64 == 0..(2^IntBits - 1)
I64 == (-(2^(IntBits - 1)))..(2^(IntBits - 1) - 1)
u64_as_i64(u) == IF u >= 2^(IntBits - 1) THEN u - 2^IntBits ELSE u

\* FilterExecutor::value_to_string
value_to_string(value) ==
    CASE value.kind = "string" -> value.s
      [] value.kind \in {"int", "uint", "sint"} -> i64_to_string(value.n)
      [] value.kind = "bool" -> IF value.b THEN "true" ELSE "false"

\* geo::Intersects on two geometries, each the set of points it covers
Intersects(g1, g2) == g1 \cap g2 # {}

\* Vec::iter().position(..) or push: the index of x after interning (1-based)
RECURSIVE Position(_, _, _)
Position(seq, x, i) ==
    IF i > Len(seq) THEN 0
    ELSE IF seq[i] = x THEN i ELSE Position(seq, x, i + 1)

\* (a push without the position lookup)
InternAppend(seq, x) == Append(seq, x)

Intern(seq, x) == IF Position(seq, x, 1) = 0 THEN Append(seq, x) ELSE seq

\* slice::chunks_exact(2): the number of whole pairs
NumPairs(tags) == Len(tags) \div 2
PairKey(tags, j) == tags[2 * j - 1]
PairVal(tags, j) == tags[2 * j]

\* `key_index >= layer.keys.len() || value_index >= layer.values.len()`,
\* with the 0-based indexes of the tag list
InRange(tags, j, keys, values) ==
    PairKey(tags, j) < Len(keys) /\ PairVal(tags, j) < Len(values)

(* ------------------ filter expressions (executor.rs) ------------------- *)

\* Operator::from_str
from_str(s) ==
    CASE s = "==" -> Ok("Equal")
      [] s = "!=" -> Ok("NotEqual")
      [] s = "<" -> Ok("LessThan")
      [] s = ">" -> Ok("GreaterThan")
      [] s = "<=" -> Ok("LessThanOrEqual")
      [] s = ">=" -> Ok("GreaterThanOrEqual")
      [] s = "any" -> Ok("Any")
      [] s = "all" -> Ok("All")
      [] s = "none" -> Ok("None")
      [] s = "not" -> Ok("Not")
      [] s = "!" -> Ok("Not")
      [] s = "in" -> Ok("In")
      [] s = "starts-with" -> Ok("StartsWith")
      [] s = "ends-with" -> Ok("EndsWith")
      [] s = "regex-match" -> Ok("RegexMatch")
      [] s = "regex-capture" -> Ok("RegexCapture")
      [] s = "boolean" -> Ok("Boolean")
      [] s = "literal" -> Ok("Literal")
      [] s = "tag" -> Ok("Tag")
      [] s = "key" -> Ok("Key")
      [] s = "type" -> Ok("Type")
      [] OTHER -> Err

\* Option<&str>
None == [some |-> FALSE, s |-> ""]
Some(s) == [some |-> TRUE, s |-> s]

\* EvaluationContext; tags is the HashMap<String, String> as a function
EvaluationContext(layer_name, geometry_type, tags, current_key, current_value) ==
    [layer_name |-> layer_name, geometry_type |-> geometry_type,
     tags |-> tags, current_key |-> current_key,
     current_value |-> current_value]

\* the scalar arms shared by evaluate_operand and its "literal" arm
ScalarToString(j) ==
    CASE j.t = "str" -> Ok(j.s)
      [] j.t = "num" -> Ok(i64_to_string(j.n))
      [] j.t = "float" -> Ok(j.s)
      [] j.t = "bool" -> Ok(IF j.b THEN "true" ELSE "false")
      [] OTHER -> Err

\* FilterExecutor::evaluate_operand
evaluate_operand(operand, context) ==
    CASE operand.t \in {"str", "num", "float", "bool"} ->
            ScalarToString(operand)
      [] operand.t = "arr" ->
            IF Len(operand.a) = 0 THEN Err
            ELSE IF operand.a[1].t # "str" THEN Err
            ELSE LET operator_str == operand.a[1].s IN
                 CASE operator_str = "tag" ->
                        IF Len(operand.a) # 2 THEN Err
                        ELSE IF operand.a[2].t # "str" THEN Err
                        ELSE IF operand.a[2].s \in DOMAIN context.tags
                             THEN Ok(context.tags[operand.a[2].s])
                             ELSE Ok("")
                   [] operator_str = "key" ->
                        IF Len(operand.a) # 1 THEN Err
                        ELSE Ok(IF context.current_key.some
                                THEN context.current_key.s ELSE "")
                   [] operator_str = "$type" ->
                        IF Len(operand.a) # 1 THEN Err
                        ELSE Ok(context.geometry_type)
                   [] operator_str = "literal" ->
                        IF Len(operand.a) # 2 THEN Err
                        ELSE ScalarToString(operand.a[2])
                   [] OTHER -> Err
      [] OTHER -> Err

\* FilterExecutor::evaluate_array_operand; Ok carries the set of the strings
\* (only `contains` is asked of the Vec)
evaluate_array_operand(operand, context) ==
    IF operand.t # "arr" THEN Err
    ELSE IF Len(operand.a) = 0 THEN Err
    ELSE IF operand.a[1].t # "str" THEN Err
    ELSE IF operand.a[1].s # "literal" THEN Err
    ELSE IF Len(operand.a) # 2 THEN Err
    ELSE IF operand.a[2].t # "arr" THEN Err
    ELSE LET items == operand.a[2].a IN
         IF \E i \in 1..Len(items) : ~ScalarToString(items[i]).ok THEN Err
         ELSE Ok({ScalarToString(items[i]).v : i \in 1..Len(items)})

RECURSIVE evaluate_expression(_, _)
RECURSIVE evaluate_operator(_, _, _)
RECURSIVE EvalUntil(_, _, _, _, _)

RECURSIVE EvalUntilLast(_, _, _, _, _)
EvalUntilLast(operands, i, context, stop, hit) ==
    LET continue(r) ==
            IF ~r.ok THEN Err
            ELSE IF r.v = stop /\ i = Len(operands) THEN Ok(hit)
            ELSE EvalUntilLast(operands, i + 1, context, stop, hit)
    IN IF i > Len(operands) THEN Ok(~hit)
       ELSE continue(evaluate_expression(operands[i], context))

\* the loops of Any / All / None: evaluate the operands in order, return
\* Ok(hit) at the first operand whose value is `stop`, pass an error on, and
\* Ok(~hit) when the operands are exhausted
EvalUntil(operands, i, context, stop, hit) ==
    LET continue(r) ==
            IF ~r.ok THEN Err
            ELSE IF r.v = stop THEN Ok(hit)
            ELSE EvalUntil(operands, i + 1, context, stop, hit)
    IN IF i > Len(operands) THEN Ok(~hit)
       ELSE continue(evaluate_expression(operands[i], context))

\* the operands of a binary operator as strings, or the first error
BinaryOperands(operands, context) ==
    LET pair(left, right) ==
            IF ~left.ok \/ ~right.ok THEN Err ELSE Ok(<<left.v, right.v>>)
    IN IF Len(operands) # 2 THEN Err
       ELSE pair(evaluate_operand(operands[1], context),
                 evaluate_operand(operands[2], context))

\* FilterExecutor::evaluate_operator (regex-match patterns are not among the
\* expressions of this model)
evaluate_operator(operator, operands, context) ==
    LET compare(both) ==
            IF ~both.ok THEN Err
            ELSE CASE operator = "Equal" -> Ok(both.v[1] = both.v[2])
                   [] operator = "NotEqual" -> Ok(both.v[1] # both.v[2])
                   [] operator = "StartsWith" ->
                        Ok(StartsWith(both.v[1], both.v[2]))
                   [] operator = "EndsWith" ->
                        Ok(EndsWith(both.v[1], both.v[2]))
        negate(r) == IF ~r.ok THEN Err ELSE Ok(~r.v)
        contains(value, array) ==
            IF ~value.ok \/ ~array.ok THEN Err ELSE Ok(value.v \in array.v)
    IN
    CASE operator \in {"Equal", "NotEqual", "StartsWith", "EndsWith"} ->
            compare(BinaryOperands(operands, context))
      [] operator \in {"Any", "All", "None"} ->
            EvalUntil(operands, 1, context, operator # "All",
                      operator = "Any")
      [] operator = "Not" ->
            IF Len(operands) # 1 THEN Err
            ELSE negate(evaluate_expression(operands[1], context))
      [] operator = "In" ->
            IF Len(operands) # 2 THEN Err
            ELSE contains(evaluate_operand(operands[1], context),
                          evaluate_array_operand(operands[2], context))
      [] OTHER -> Err

\* FilterExecutor::evaluate_expression
evaluate_expression(expr, context) ==
    LET apply(operator) ==
            IF ~operator.ok THEN Err
            ELSE evaluate_operator(operator.v, Tail(expr.a), context)
    IN
    CASE expr.t = "arr" ->
            IF Len(expr.a) = 0 THEN Err
            ELSE IF expr.a[1].t # "str" THEN Err
            ELSE apply(from_str(expr.a[1].s))
      [] expr.t = "bool" -> Ok(expr.b)
      [] OTHER -> Err

(* ---------------- feature filtering (executor.rs) ---------------------- *)
\* the indexes of the whole tag pairs whose two indexes are in range
ValidPairs(tags, keys, values) ==
    {j \in 1..NumPairs(tags) : InRange(tags, j, keys, values)}

KeyOf(tags, j, keys) == keys[PairKey(tags, j) + 1]
ValueOf(tags, j, values) == values[PairVal(tags, j) + 1]

\* FilterExecutor::extract_feature_tags: HashMap::insert in tag order, so
\* the last pair of a key wins
extract_feature_tags(feature, layer_keys, layer_values) ==
    LET valid == ValidPairs(feature.tags, layer_keys, layer_values)
        last(k) == CHOOSE j \in valid :
                       /\ KeyOf(feature.tags, j, layer_keys) = k
                       /\ \A j2 \in valid :
                            KeyOf(feature.tags, j2, layer_keys) = k => j2 <= j
    IN [k \in {KeyOf(feature.tags, j, layer_keys) : j \in valid} |->
            value_to_string(ValueOf(feature.tags, last(k), layer_values))]

\* FilterExecutor::parse_geojson_geometry: Point and Polygon only
parse_geojson_geometry(geom) ==
    IF geom.gtype \in {"Point", "Polygon"} THEN Ok(geom.pts) ELSE Err

\* Option<&LayerFilter>
NoLayerFilter == [some |-> FALSE, feature |-> NoExpr, tag |-> NoExpr]
SomeLayerFilter(lf) == [some |-> TRUE, feature |-> lf.feature, tag |-> lf.tag]

\* find_layer_filter as if it skipped the regions before `from`
RECURSIVE find_layer_filter_from(_, _, _, _)
find_layer_filter_from(filters, layer_name, feature_geometry, i) ==
    IF i > Len(filters) THEN Ok(NoLayerFilter)
    ELSE LET filter_feature == filters[i]
             filter_geometry == parse_geojson_geometry(filter_feature)
         IN IF ~filter_geometry.ok THEN Err
            ELSE IF /\ Intersects(feature_geometry, filter_geometry.v)
                    /\ layer_name \in DOMAIN filter_feature.layers
                 THEN Ok(SomeLayerFilter(filter_feature.layers[layer_name]))
            ELSE IF /\ Intersects(feature_geometry, filter_geometry.v)
                    /\ "*" \in DOMAIN filter_feature.layers
                 THEN Ok(SomeLayerFilter(filter_feature.layers["*"]))
            ELSE find_layer_filter_from(filters, layer_name,
                                        feature_geometry, i + 1)

\* FilterExecutor::find_layer_filter
find_layer_filter(filters, layer_name, feature_geometry) ==
    find_layer_filter_from(filters, layer_name, feature_geometry, 1)

\* FilterExecutor::filter_tags, from pair j on, with the tags kept so far
RECURSIVE filter_tags_from(_, _, _, _, _, _, _)
filter_tags_from(feature, layer_keys, layer_values, tag_expr, base_context, j, filtered_tags) ==
    LET valid == InRange(feature.tags, j, layer_keys, layer_values)
        key == KeyOf(feature.tags, j, layer_keys)
        value == value_to_string(ValueOf(feature.tags, j, layer_values))
        tag_context ==
            [base_context EXCEPT !.current_key = Some(key),
                                 !.current_value = Some(value)]
        continue(should_remove) ==
            IF valid /\ ~should_remove.ok THEN Err
            ELSE filter_tags_from(feature, layer_keys, layer_values, tag_expr,
                     base_context, j + 1,
                     IF ~valid \/ should_remove.v THEN filtered_tags
                     ELSE filtered_tags \o <<PairKey(feature.tags, j),
                                             PairVal(feature.tags, j)>>)
    IN IF j > NumPairs(feature.tags) THEN Ok(filtered_tags)
       ELSE continue(evaluate_expression(tag_expr, tag_context))

filter_tags(feature, layer_keys, layer_values, tag_expr, base_context) ==
    filter_tags_from(feature, layer_keys, layer_values, tag_expr,
                     base_context, 1, <<>>)

\* the geometry kind of apply_feature_filters: Multi* map to the single kind
geometry_type(kind) ==
    CASE kind \in {"Point", "MultiPoint"} -> "Point"
      [] kind \in {"LineString", "MultiLineString"} -> "LineString"
      [] kind \in {"Polygon", "MultiPolygon"} -> "Polygon"

\* Result<(bool, Vec<u32>)>
Filtered(keep, tags) == [ok |-> TRUE, keep |-> keep, tags |-> tags]
FilterErr == [ok |-> FALSE, keep |-> FALSE, tags |-> <<>>]

\* FilterExecutor::apply_feature_filters
apply_feature_filters(filters, feature, layer_name, layer_keys, layer_values) ==
    LET tags == extract_feature_tags(feature, layer_keys, layer_values)
        context == EvaluationContext(layer_name, geometry_type(feature.kind),
                                     tags, None, None)
        kept(filtered_tags) ==
            IF ~filtered_tags.ok THEN FilterErr
            ELSE Filtered(TRUE, filtered_tags.v)
        decide(lf, should_remove) ==
            IF ~should_remove.ok THEN FilterErr
            ELSE IF should_remove.v THEN Filtered(FALSE, <<>>)
            ELSE IF lf.some /\ lf.tag # NoExpr
                 THEN kept(filter_tags(feature, layer_keys, layer_values,
                                       lf.tag, context))
            ELSE Filtered(TRUE, feature.tags)
        select(layer_filter) ==
            IF ~layer_filter.ok THEN FilterErr
            ELSE decide(layer_filter.v,
                        IF /\ layer_filter.v.some
                           /\ layer_filter.v.feature # NoExpr
                        THEN evaluate_expression(layer_filter.v.feature,
                                                 context)
                        ELSE Ok(FALSE))
    IN select(find_layer_filter(filters, layer_name, feature.pts))

(* ---------------------- tile transform (transform.rs) ------------------ *)
\* Result<Vec<u8>>, with the decoded tile for the bytes; a panic unwinds out
\* of the call
TileOk(layers) == [status |-> "Ok", layers |-> layers]
TileErr == [status |-> "Err", layers |-> <<>>]
TilePanic == [status |-> "Panic", layers |-> <<>>]

\* the dictionaries and tag list being rebuilt for one feature
Rebuilt(status, keys, values, tags) ==
    [status |-> status, keys |-> keys, values |-> values, tags |-> tags]

\* the index of the interned entry counted from 1
InternIndexOneBased(seq, x) == Position(Intern(seq, x), x, 1)

\* keys.iter().position(..) / push, then the 0-based index pushed to new_tags
InternIndex(seq, x) == Position(Intern(seq, x), x, 1) - 1

\* transform_tile_dynamic, lines 219-250: the rebuild loop from pair j on
RECURSIVE rebuild_tags_dynamic(_, _, _, _)
rebuild_tags_dynamic(layer, tags, j, acc) ==
    IF j > NumPairs(tags) THEN acc
    ELSE LET key == KeyOf(tags, j, layer.keys)
             value == ValueOf(tags, j, layer.values)
         IN rebuild_tags_dynamic(layer, tags, j + 1,
                IF ~InRange(tags, j, layer.keys, layer.values) THEN acc
                ELSE Rebuilt("Ok", Intern(acc.keys, key),
                             Intern(acc.values, value),
                             acc.tags \o <<InternIndex(acc.keys, key),
                                           InternIndex(acc.values, value)>>))

\* the layer being rebuilt
LayerAcc(status, keys, values, features) ==
    [status |-> status, keys |-> keys, values |-> values,
     features |-> features]

\* transform_tile_dynamic, lines 194-254: the feature loop from feature i on
RECURSIVE dynamic_features(_, _, _, _)
dynamic_features(layer, filter_collection, i, acc) ==
    LET feature == layer.features[i]
        push(rb) ==
            LayerAcc("Ok", rb.keys, rb.values,
                     Append(acc.features, [feature EXCEPT !.tags = rb.tags]))
        continue(filtered) ==
            IF ~filtered.ok THEN LayerAcc("Err", <<>>, <<>>, <<>>)
            ELSE dynamic_features(layer, filter_collection, i + 1,
                     IF ~filtered.keep THEN acc
                     ELSE push(rebuild_tags_dynamic(layer, filtered.tags, 1,
                                   Rebuilt("Ok", acc.keys, acc.values, <<>>))))
    IN IF i > Len(layer.features) THEN acc
       ELSE continue(IF filter_collection.some
                 THEN apply_feature_filters(filter_collection.features,
                          feature, layer.name, layer.keys, layer.values)
                 ELSE Filtered(TRUE, feature.tags))

\* the layer with its new features and its input dictionaries
ReplacedFeaturesOnly(layer, acc) == [layer EXCEPT !.features = acc.features]

\* (the layer written back with the default extent of `unwrap_or(4096)`)
ReplacedDefaultExtent(layer, acc) ==
    [layer EXCEPT !.keys = acc.keys, !.values = acc.values,
                  !.features = acc.features, !.extent = 4096]

\* a layer with its rebuilt dictionaries and features (lines 256-258)
Replaced(layer, acc) ==
    [layer EXCEPT !.keys = acc.keys, !.values = acc.values,
                  !.features = acc.features]

\* transform_tile_dynamic, lines 185-259: the layer loop from layer li on
RECURSIVE dynamic_layers(_, _, _, _)
dynamic_layers(layers, filter_collection, li, done) ==
    LET continue(acc) ==
            IF acc.status = "Err" THEN TileErr
            ELSE dynamic_layers(layers, filter_collection, li + 1,
                                Append(done, Replaced(layers[li], acc)))
    IN IF li > Len(layers) THEN TileOk(done)
       ELSE continue(dynamic_features(layers[li], filter_collection, 1,
                                  LayerAcc("Ok", <<>>, <<>>, <<>>)))

\* transform::transform_tile_dynamic
transform_tile_dynamic(coords, data, filter_collection) ==
    dynamic_layers(data, filter_collection, 1, <<>>)

\* transform::project_to_tile on the pixel grid of the tile's zoom level
project_to_tile(geom, coords, extent) ==
    {<<p[1] - coords.x * extent, p[2] - coords.y * extent>> : p \in geom}

\* transform::bbox_intersects_tile
bbox_intersects_tile(geom, extent) ==
    /\ geom # {}
    /\ \E p \in geom : p[1] <= extent
    /\ \E p \in geom : p[1] >= 0
    /\ \E p \in geom : p[2] <= extent
    /\ \E p \in geom : p[2] >= 0

\* NAME_MATCHER, ^name:?(.*)$ : capture group 1 of a key without newlines
name_matcher(key) ==
    IF ~StartsWith(key, "name") THEN None
    ELSE LET rest == SubSeq(key, Len("name") + 1, Len(key)) IN
         IF StartsWith(rest, ":") THEN Some(SubSeq(rest, 2, Len(rest)))
         ELSE Some(rest)

\* transform_tile, lines 127-139: the tag is skipped
name_filtered(key) ==
    \/ LET captures == name_matcher(key) IN
       captures.some /\ captures.s # "" /\ captures.s # "ja"
    \/ StartsWith(key, "pgf:name:")

\* transform_tile, lines 118-160: the tag loop from pair j on; the indexing of
\* lines 124-125 is unchecked
RECURSIVE rebuild_tags(_, _, _, _)
rebuild_tags(layer, tags, j, acc) ==
    IF j > NumPairs(tags) THEN acc
    ELSE IF ~InRange(tags, j, layer.keys, layer.values)
         THEN Rebuilt("Panic", <<>>, <<>>, <<>>)
    ELSE LET key == KeyOf(tags, j, layer.keys)
             value == ValueOf(tags, j, layer.values)
         IN rebuild_tags(layer, tags, j + 1,
                IF name_filtered(key) THEN acc
                ELSE Rebuilt("Ok", Intern(acc.keys, key),
                             Intern(acc.values, value),
                             acc.tags \o <<InternIndex(acc.keys, key),
                                           InternIndex(acc.values, value)>>))

\* transform_tile, lines 89-116: the hard-coded intersection rules
SensitiveLayers == {"boundaries", "roads", "buildings"}
PointLayers == {"earth", "water", "pois", "places"}
intersection_filtered(layer, feature, filter_geometry) ==
    /\ filter_geometry.some
    /\ Intersects(feature.pts, filter_geometry.pts)
    /\ \/ layer.name \in SensitiveLayers
       \/ layer.name \in PointLayers /\ feature.kind = "Point"

\* transform_tile, lines 84-164: the feature loop from feature i on
RECURSIVE static_features(_, _, _, _)
static_features(layer, filter_geometry, i, acc) ==
    LET feature == layer.features[i]
        push(rb) ==
            IF rb.status = "Panic" THEN LayerAcc("Panic", <<>>, <<>>, <<>>)
            ELSE static_features(layer, filter_geometry, i + 1,
                     LayerAcc("Ok", rb.keys, rb.values,
                              Append(acc.features,
                                     [feature EXCEPT !.tags = rb.tags])))
    IN IF i > Len(layer.features) THEN acc
       ELSE IF intersection_filtered(layer, feature, filter_geometry)
            THEN static_features(layer, filter_geometry, i + 1, acc)
       ELSE push(rebuild_tags(layer, feature.tags, 1,
                              Rebuilt("Ok", acc.keys, acc.values, <<>>)))

\* Option<&Geometry>
NoGeometry == [some |-> FALSE, pts |-> {}]
SomeGeometry(pts) == [some |-> TRUE, pts |-> pts]

\* transform_tile, lines 67-78: the filter geometry of one layer
layer_filter_geometry(layer, coords, filter_geometry) ==
    IF ~filter_geometry.some THEN NoGeometry
    ELSE LET tile_geometry ==
                 project_to_tile(filter_geometry.pts, coords, layer.extent)
         IN IF bbox_intersects_tile(tile_geometry, layer.extent)
            THEN SomeGeometry(tile_geometry) ELSE NoGeometry

\* transform_tile, lines 62-169: the layer loop from layer li on
RECURSIVE static_layers(_, _, _, _, _)
static_layers(layers, coords, filter_geometry, li, done) ==
    LET continue(acc) ==
            IF acc.status = "Panic" THEN TilePanic
            ELSE static_layers(layers, coords, filter_geometry, li + 1,
                               Append(done, Replaced(layers[li], acc)))
    IN IF li > Len(layers) THEN TileOk(done)
       ELSE continue(static_features(layers[li],
                     layer_filter_geometry(layers[li], coords,
                                           filter_geometry),
                     1, LayerAcc("Ok", <<>>, <<>>, <<>>)))

\* transform::transform_tile
transform_tile(coords, data, filter_geometry) ==
    static_layers(data, coords, filter_geometry, 1, <<>>)

(* ------------- compiled expressions (expression_compiler.rs) ----------- *)
\* ExpressionValue
EV_String(s) == [k |-> "String", s |-> s, b |-> FALSE, n |-> 0, a |-> <<>>]
EV_Number(n) == [k |-> "Number", s |-> "", b |-> FALSE, n |-> n, a |-> <<>>]
EV_Float(s) == [k |-> "Float", s |-> s, b |-> FALSE, n |-> 0, a |-> <<>>]
EV_Boolean(b) == [k |-> "Boolean", s |-> "", b |-> b, n |-> 0, a |-> <<>>]
EV_Null == [k |-> "Null", s |-> "", b |-> FALSE, n |-> 0, a |-> <<>>]
EV_Array(a) == [k |-> "Array", s |-> "", b |-> FALSE, n |-> 0, a |-> a]

\* CompiledExpression: the variant, its child expressions, its payload (the
\* literal, the tag name, the prefix, suffix or pattern) and the HashSet of In
Compiled(op, args, val) == [op |-> op, args |-> args, val |-> val, set |-> {}]

CompiledInFirstOnly(expr, values) ==
    [op |-> "In", args |-> <<expr>>, val |-> EV_Null, set |-> IF values = {} THEN {} ELSE {CHOOSE v \in values : TRUE}]

\* CompiledExpression::In(expr, values)
CompiledIn(expr, values) ==
    [op |-> "In", args |-> <<expr>>, val |-> EV_Null, set |-> values]

\* ExpressionValue::from_json_value
RECURSIVE from_json_value(_)
from_json_value(value) ==
    CASE value.t = "str" -> EV_String(value.s)
      [] value.t = "num" -> EV_Number(value.n)
      [] value.t = "float" -> EV_Float(value.s)
      [] value.t = "bool" -> EV_Boolean(value.b)
      [] value.t = "null" -> EV_Null
      [] value.t = "arr" ->
            EV_Array([i \in 1..Len(value.a) |-> from_json_value(value.a[i])])
      [] value.t = "obj" -> EV_String(value.s)

\* ExpressionValue::from_mvt_value
from_mvt_value(value) ==
    CASE value.kind = "string" -> EV_String(value.s)
      [] value.kind = "int" -> EV_Number(value.n)
      [] value.kind = "uint" -> EV_Number(u64_as_i64(value.n))
      [] value.kind = "sint" -> EV_Number(value.n)
      [] value.kind = "bool" -> EV_Boolean(value.b)

ToBoolPositive(v) ==
    CASE v.k = "Boolean" -> v.b
      [] v.k = "String" -> v.s # ""
      [] v.k = "Number" -> v.n > 0
      [] v.k = "Float" -> v.s # "0" /\ v.s # "0.0"
      [] v.k = "Null" -> FALSE
      [] v.k = "Array" -> v.a # <<>>

ToBoolInverting(v) ==
    CASE v.k = "Boolean" -> ~v.b
      [] v.k = "String" -> v.s # ""
      [] v.k = "Number" -> v.n # 0
      [] v.k = "Float" -> v.s # "0" /\ v.s # "0.0"
      [] v.k = "Null" -> FALSE
      [] v.k = "Array" -> v.a # <<>>

\* ExpressionValue::to_bool
to_bool(v) ==
    CASE v.k = "Boolean" -> v.b
      [] v.k = "String" -> v.s # ""
      [] v.k = "Number" -> v.n # 0
      [] v.k = "Float" -> v.s # "0" /\ v.s # "0.0"
      [] v.k = "Null" -> FALSE
      [] v.k = "Array" -> v.a # <<>>

EnsureArgCountAtLeast(args, expected) == Len(args) >= expected

\* ExpressionCompiler::ensure_arg_count
ensure_arg_count(args, expected) == Len(args) = expected

ComparisonOperators ==
    {"Equal", "NotEqual", "LessThan", "GreaterThan", "LessThanOrEqual",
     "GreaterThanOrEqual"}

RECURSIVE compile(_)
RECURSIVE compile_operator(_, _)

\* args.iter().map(Self::compile).collect::<Result<Vec<_>>>()
compile_all(args) ==
    LET collect(compiled) ==
            IF \E i \in DOMAIN compiled : ~compiled[i].ok THEN Err
            ELSE Ok([i \in DOMAIN compiled |-> compiled[i].v])
    IN collect([i \in 1..Len(args) |-> compile(args[i])])

\* regex::Regex::new, as far as the syntax of character classes goes: a
\* pattern with an unclosed "[" is rejected
RECURSIVE regex_syntax_ok(_, _, _)
regex_syntax_ok(pattern, i, in_class) ==
    LET c == SubSeq(pattern, i, i) IN
    IF i > Len(pattern) THEN ~in_class
    ELSE regex_syntax_ok(pattern, i + 1,
             IF c = "[" THEN TRUE ELSE IF c = "]" THEN FALSE ELSE in_class)

RegexNewLenient(pattern) == Ok(pattern)

Regex_new(pattern) ==
    IF regex_syntax_ok(pattern, 1, FALSE) THEN Ok(pattern) ELSE Err

\* ExpressionCompiler::ensure_min_arg_count
ensure_min_arg_count(args, min) == Len(args) >= min

\* ExpressionCompiler::compile_operator: every arm checks the argument count
\* first; the string operators compile their first argument only
compile_operator(operator, args) ==
    LET build(compiled_args) ==
            IF ~compiled_args.ok THEN Err
            ELSE CASE operator \in ComparisonOperators
                           \cup {"Any", "All", "None", "Not", "Boolean"} ->
                        Ok(Compiled(operator, compiled_args.v, EV_Null))
                   [] operator = "In" ->
                        IF /\ compiled_args.v[2].op = "Literal"
                           /\ compiled_args.v[2].val.k = "Array"
                        THEN Ok(CompiledIn(compiled_args.v[1],
                                    {compiled_args.v[2].val.a[i] :
                                        i \in DOMAIN compiled_args.v[2].val.a}))
                        ELSE Err
                   [] operator \in {"StartsWith", "EndsWith"} ->
                        IF args[2].t # "str" THEN Err
                        ELSE Ok(Compiled(operator, compiled_args.v,
                                         EV_String(args[2].s)))
                   [] operator = "RegexMatch" ->
                        IF args[2].t # "str" THEN Err
                        ELSE IF ~Regex_new(args[2].s).ok THEN Err
                        ELSE Ok(Compiled(operator, compiled_args.v,
                                         EV_String(args[2].s)))
                   [] operator = "RegexCapture" ->
                        IF args[2].t # "str" THEN Err
                        ELSE IF args[3].t # "num" \/ args[3].n < 0 THEN Err
                        ELSE IF ~Regex_new(args[2].s).ok THEN Err
                        ELSE Ok(Compiled(operator, compiled_args.v,
                                    EV_Array(<<EV_String(args[2].s),
                                               EV_Number(args[3].n)>>)))
        arity_ok ==
            CASE operator \in ComparisonOperators
                     \cup {"In", "StartsWith", "EndsWith", "RegexMatch"} ->
                    ensure_arg_count(args, 2)
              [] operator \in {"Any", "All", "None"} -> TRUE
              [] operator \in {"Not", "Boolean", "Literal", "Tag"} ->
                    ensure_arg_count(args, 1)
              [] operator = "RegexCapture" -> ensure_min_arg_count(args, 3)
              [] operator \in {"Key", "Type"} -> ensure_arg_count(args, 0)
        compiled ==
            IF operator \in {"StartsWith", "EndsWith", "RegexMatch",
                             "RegexCapture"}
            THEN SubSeq(args, 1, 1) ELSE args
    IN
    IF ~arity_ok THEN Err
    ELSE CASE operator = "Literal" ->
                Ok(Compiled("Literal", <<>>, from_json_value(args[1])))
           [] operator = "Tag" ->
                IF args[1].t # "str" THEN Err
                ELSE Ok(Compiled("Tag", <<>>, EV_String(args[1].s)))
           [] operator \in {"Key", "Type"} ->
                Ok(Compiled(operator, <<>>, EV_Null))
           [] OTHER -> build(compile_all(compiled))

\* ExpressionCompiler::compile
compile(expr) ==
    LET apply(operator) ==
            IF ~operator.ok THEN Err
            ELSE compile_operator(operator.v, Tail(expr.a))
    IN
    CASE expr.t = "arr" ->
            IF Len(expr.a) = 0 THEN Err
            ELSE IF expr.a[1].t # "str" THEN Err
            ELSE apply(from_str(expr.a[1].s))
      [] expr.t = "str" -> Ok(Compiled("Literal", <<>>, EV_String(expr.s)))
      [] expr.t = "num" -> Ok(Compiled("Literal", <<>>, EV_Number(expr.n)))
      [] expr.t = "float" -> Ok(Compiled("Literal", <<>>, EV_Float(expr.s)))
      [] expr.t = "bool" -> Ok(Compiled("Literal", <<>>, EV_Boolean(expr.b)))
      [] expr.t = "null" -> Ok(Compiled("Literal", <<>>, EV_Null))
      [] expr.t = "obj" -> Err

\* impl Display for ExpressionValue
RECURSIVE Display(_)
RECURSIVE JoinDisplay(_, _)
JoinDisplay(arr, i) ==
    IF i > Len(arr) THEN ""
    ELSE Display(arr[i]) \o (IF i < Len(arr) THEN ", " ELSE "")
         \o JoinDisplay(arr, i + 1)

Display(v) ==
    CASE v.k = "String" -> v.s
      [] v.k = "Number" -> i64_to_string(v.n)
      [] v.k = "Float" -> v.s
      [] v.k = "Boolean" -> IF v.b THEN "true" ELSE "false"
      [] v.k = "Null" -> "null"
      [] v.k = "Array" -> "[" \o JoinDisplay(v.a, 1) \o "]"

(* ---------- compiled evaluation (the executor of spec section 4.3) ------ *)
\* the evaluation context of the compiled executor: the property map holds
\* the layer's typed values
CompiledContext(layer_name, kind, properties, current_key) ==
    [layer_name |-> layer_name, geometry_type |-> kind,
     properties |-> properties, current_key |-> current_key]

\* the property map of a feature: key name to the layer's typed value
property_map(feature, layer_keys, layer_values) ==
    LET valid == ValidPairs(feature.tags, layer_keys, layer_values)
        last(k) == CHOOSE j \in valid :
                       /\ KeyOf(feature.tags, j, layer_keys) = k
                       /\ \A j2 \in valid :
                            KeyOf(feature.tags, j2, layer_keys) = k => j2 <= j
    IN [k \in {KeyOf(feature.tags, j, layer_keys) : j \in valid} |->
            ValueOf(feature.tags, last(k), layer_values)]

\* <str as Ord>::cmp: byte-wise lexicographic, over the characters of the
\* printable ASCII characters in their order (no quote, backslash or backtick)
AsciiOrder == " !#$%&()*+,-./0123456789:;<=>?@ABCDEFGHIJKLMNOPQRSTUVWXYZ[]^_abcdefghijklmnopqrstuvwxyz{|}~"
ByteOf(c) == CHOOSE i \in 1..Len(AsciiOrder) : SubSeq(AsciiOrder, i, i) = c

RECURSIVE str_cmp(_, _, _)
str_cmp(x, y, i) ==
    IF i > Len(x) /\ i > Len(y) THEN "Equal"
    ELSE IF i > Len(x) THEN "Less"
    ELSE IF i > Len(y) THEN "Greater"
    ELSE IF SubSeq(x, i, i) = SubSeq(y, i, i) THEN str_cmp(x, y, i + 1)
    ELSE IF ByteOf(SubSeq(x, i, i)) < ByteOf(SubSeq(y, i, i)) THEN "Less"
    ELSE "Greater"

int_cmp(x, y) == IF x < y THEN "Less" ELSE IF x = y THEN "Equal" ELSE "Greater"

\* str::parse::<f64> of a decimal rendering with at most one fractional
\* digit; the value is carried in tenths
RECURSIVE DigitsToNat(_, _, _)
DigitsToNat(s, i, acc) ==
    IF i > Len(s) THEN acc
    ELSE DigitsToNat(s, i + 1, 10 * acc + (ByteOf(SubSeq(s, i, i)) - ByteOf("0")))

parse_f64_tenths(s) ==
    LET negative == StartsWith(s, "-")
        digits == IF negative THEN SubSeq(s, 2, Len(s)) ELSE s
        dots == {i \in 1..Len(digits) : SubSeq(digits, i, i) = "."}
        dot == IF dots = {} THEN Len(digits) + 1 ELSE CHOOSE i \in dots : TRUE
        whole == DigitsToNat(SubSeq(digits, 1, dot - 1), 1, 0)
        tenths == IF dot >= Len(digits) THEN 0
                  ELSE DigitsToNat(SubSeq(digits, dot + 1, dot + 1), 1, 0)
        magnitude == 10 * whole + tenths
    IN IF negative THEN -magnitude ELSE magnitude

\* the f64 of a Number or a Float, in tenths
as_f64_tenths(v) == IF v.k = "Number" THEN 10 * v.n ELSE parse_f64_tenths(v.s)

\* the comparison of two expression values: Null is less than any non-null,
\* the same kind compares by payload, Number and Float compare as f64, any
\* other pair of kinds compares by the rendering of both sides
compare(x, y) ==
    IF x.k = "Null" /\ y.k = "Null" THEN "Equal"
    ELSE IF x.k = "Null" THEN "Less"
    ELSE IF y.k = "Null" THEN "Greater"
    ELSE IF x.k = "Boolean" /\ y.k = "Boolean"
         THEN int_cmp(IF x.b THEN 1 ELSE 0, IF y.b THEN 1 ELSE 0)
    ELSE IF x.k = "Number" /\ y.k = "Number" THEN int_cmp(x.n, y.n)
    ELSE IF x.k \in {"Number", "Float"} /\ y.k \in {"Number", "Float"}
         THEN int_cmp(as_f64_tenths(x), as_f64_tenths(y))
    ELSE str_cmp(Display(x), Display(y), 1)

\* equality of two expression values: the equal outcome of the comparison
values_equal(x, y) == compare(x, y) = "Equal"

\* the pattern of NAME_MATCHER, which is also the pattern of the tag language
\* filter
NamePattern == "^name:?(.*)$"

\* regex-capture: String(captured group) when the pattern matches and the
\* group is present, else Null; the patterns matched are NamePattern (group 0
\* is the whole match, the whole text for an anchored pattern)
regex_capture(pattern, text, group) ==
    LET captures == IF pattern = NamePattern THEN name_matcher(text) ELSE None IN
    IF ~captures.some THEN EV_Null
    ELSE IF group = 0 THEN EV_String(text)
    ELSE IF group = 1 THEN EV_String(captures.s)
    ELSE EV_Null

\* ExpressionExecutor::evaluate
RECURSIVE evaluate(_, _)
evaluate(expr, context) ==
    LET result(arg) ==
            CASE expr.op = "Equal" -> EV_Boolean(values_equal(arg[1], arg[2]))
              [] expr.op = "NotEqual" ->
                    EV_Boolean(~values_equal(arg[1], arg[2]))
              [] expr.op = "LessThan" ->
                    EV_Boolean(compare(arg[1], arg[2]) = "Less")
              [] expr.op = "GreaterThan" ->
                    EV_Boolean(compare(arg[1], arg[2]) = "Greater")
              [] expr.op = "LessThanOrEqual" ->
                    EV_Boolean(compare(arg[1], arg[2]) # "Greater")
              [] expr.op = "GreaterThanOrEqual" ->
                    EV_Boolean(compare(arg[1], arg[2]) # "Less")
              [] expr.op = "Any" ->
                    EV_Boolean(\E i \in DOMAIN arg : to_bool(arg[i]))
              [] expr.op = "All" ->
                    EV_Boolean(\A i \in DOMAIN arg : to_bool(arg[i]))
              [] expr.op = "None" ->
                    EV_Boolean(\A i \in DOMAIN arg : ~to_bool(arg[i]))
              [] expr.op = "Not" -> EV_Boolean(~to_bool(arg[1]))
              [] expr.op = "Boolean" -> EV_Boolean(to_bool(arg[1]))
              [] expr.op = "In" -> EV_Boolean(arg[1] \in expr.set)
              [] expr.op = "StartsWith" ->
                    EV_Boolean(StartsWith(Display(arg[1]), expr.val.s))
              [] expr.op = "EndsWith" ->
                    EV_Boolean(EndsWith(Display(arg[1]), expr.val.s))
              [] expr.op = "RegexCapture" ->
                    regex_capture(expr.val.a[1].s, Display(arg[1]),
                                  expr.val.a[2].n)
    IN
    CASE expr.op = "Literal" -> expr.val
      [] expr.op = "Tag" ->
            IF expr.val.s \in DOMAIN context.properties
            THEN from_mvt_value(context.properties[expr.val.s])
            ELSE EV_Null
      [] expr.op = "Key" ->
            IF context.current_key.some
            THEN EV_String(context.current_key.s) ELSE EV_Null
      [] expr.op = "Type" -> EV_String(context.geometry_type)
      [] OTHER ->
            result([i \in 1..Len(expr.args) |-> evaluate(expr.args[i], context)])

\* ExpressionExecutor::evaluate_bool
evaluate_bool(expr, context) == Ok(to_bool(evaluate(expr, context)))

(* -------------------- compiled filters (data.rs) ----------------------- *)
\* Option<CompiledExpression>
NoCompiled == [some |-> FALSE, e |-> Compiled("Literal", <<>>, EV_Null)]
SomeCompiled(e) == [some |-> TRUE, e |-> e]

compile_option(expr) ==
    LET some(c) == IF ~c.ok THEN Err ELSE Ok(SomeCompiled(c.v))
    IN IF expr = NoExpr THEN Ok(NoCompiled) ELSE some(compile(expr))

\* LayerFilter::compile
LayerFilter_compile(layer_filter) ==
    LET both(feature, tag) ==
            IF ~feature.ok \/ ~tag.ok THEN Err
            ELSE Ok([feature |-> feature.v, tag |-> tag.v])
    IN both(compile_option(layer_filter.feature),
            compile_option(layer_filter.tag))

\* FilterFeature::compile_layers
compile_layers(filter_feature) ==
    LET collect(compiled) ==
            IF \E n \in DOMAIN compiled : ~compiled[n].ok THEN Err
            ELSE Ok([n \in DOMAIN compiled |-> compiled[n].v])
    IN collect([n \in DOMAIN filter_feature.layers |->
                    LayerFilter_compile(filter_feature.layers[n])])

\* CompiledFilterFeature::should_remove_feature
should_remove_feature(layers, context) ==
    LET specific == context.layer_name \in DOMAIN layers
                    /\ layers[context.layer_name].feature.some
        wildcard == "*" \in DOMAIN layers /\ layers["*"].feature.some
        name == IF specific THEN context.layer_name ELSE "*"
    IN IF specific \/ wildcard
       THEN evaluate_bool(layers[name].feature.e, context)
       ELSE Ok(FALSE)

\* CompiledFilterFeature::should_remove_tag
should_remove_tag(layers, context) ==
    LET specific == context.layer_name \in DOMAIN layers
                    /\ layers[context.layer_name].tag.some
        wildcard == "*" \in DOMAIN layers /\ layers["*"].tag.some
        name == IF specific THEN context.layer_name ELSE "*"
    IN IF specific \/ wildcard
       THEN evaluate_bool(layers[name].tag.e, context)
       ELSE Ok(FALSE)

(* ------------------ spatial index of the regions (data.rs) ------------- *)
\* geo::BoundingRect: a geometry is the set of grid points it covers; an
\* empty geometry has no bounding rectangle
NoRect == [some |-> FALSE, min |-> <<0, 0>>, max |-> <<0, 0>>]
bounding_rect(geom) ==
    IF geom = {} THEN NoRect
    ELSE LET xs == {p[1] : p \in geom}
             ys == {p[2] : p \in geom}
             least(S) == CHOOSE m \in S : \A n \in S : m <= n
             greatest(S) == CHOOSE m \in S : \A n \in S : m >= n
         IN [some |-> TRUE, min |-> <<least(xs), least(ys)>>, max |-> <<greatest(xs), greatest(ys)>>]

\* FeatureIndexEntry::envelope_from_rect
envelope_from_rect(rect) == [lower |-> rect.min, upper |-> rect.max]

\* FeatureIndexEntry::new
FeatureIndexEntry(index, rect) == [index |-> index, envelope |-> envelope_from_rect(rect)]

\* the query envelope lies around the entry's envelope
EnvelopeContains(a, b) ==
    \A d \in 1..2 : b.lower[d] <= a.lower[d] /\ a.upper[d] <= b.upper[d]

\* rstar AABB::intersects, the test of locate_in_envelope_intersecting: the
\* boxes overlap or touch in every dimension
envelope_intersects(a, b) ==
    \A d \in 1..2 : a.lower[d] <= b.upper[d] /\ b.lower[d] <= a.upper[d]

\* CompiledFilterFeature, as far as the index looks at it
CompiledFilterFeature(geometry) == [geometry |-> geometry]

\* CompiledFilterCollection::new: the R-tree holds one entry for every
\* feature with a bounding rectangle (0-based index)
CompiledFilterCollection_new(features) ==
    [features |-> features,
     feature_index |-> {FeatureIndexEntry(i - 1, bounding_rect(features[i].geometry)) :
                           i \in {k \in 1..Len(features) : bounding_rect(features[k].geometry).some}}]

\* RTree::locate_in_envelope_intersecting: the entries found, in an order the
\* tree decides
locate_in_envelope_intersecting(feature_index, envelope) ==
    {e \in feature_index : envelope_intersects(e.envelope, envelope)}

\* the orders an iterator over the entries can take
Orders(entries) ==
    {o \in [1..Cardinality(entries) -> entries] : \A i, j \in DOMAIN o : o[i] = o[j] => i = j}

\* get_filter_features, the loop over the located entries from entry i on
RECURSIVE filter_features_from(_, _, _, _, _, _)
filter_features_from(self, geom, located, i, seen, results) ==
    IF i > Len(located) THEN results
    ELSE LET index == located[i].index
             candidate == self.features[index + 1]
         IN filter_features_from(self, geom, located, i + 1, seen \cup {index},
                IF index \notin seen /\ Intersects(candidate.geometry, geom)
                THEN Append(results, index) ELSE results)

\* CompiledFilterCollection::get_filter_features with the located entries
\* iterated in the order `order`; the result holds the indexes of the
\* features returned
get_filter_features(self, geom, order) ==
    IF ~bounding_rect(geom).some THEN <<>>
    ELSE filter_features_from(self, geom, order, 1, {}, <<>>)

(* --------------------------- transform inputs -------------------------- *)
SeqsUpTo(S, n) == UNION {[1..k -> S] : k \in 0..n}

\* layer dictionaries of the input tiles
LayerKeys == <<"name", "name:en", "kind", "name:ja", "pgf:name:x">>
LayerValues == <<StringValue("park"), StringValue("house"), BoolValue(TRUE)>>

\* feature shapes: geometry kind, tile-local points, tag list (0-based index
\* pairs; <<5, 0>> has a key index out of range, the second list has odd
\* length)
FeatureShape(kind, pts, tags) == [kind |-> kind, pts |-> pts, tags |-> tags]
FeatureShapes ==
    {FeatureShape("Point", {<<0, 0>>}, <<0, 0, 2, 0>>),
     FeatureShape("Polygon", {<<1, 0>>, <<1, 1>>}, <<2, 1, 1, 1, 0>>),
     FeatureShape("Point", {<<0, 0>>}, <<3, 1, 4, 2>>),
     FeatureShape("Point", {<<1, 1>>}, <<5, 0>>)}

Feature(id, shape) ==
    [id |-> id, kind |-> shape.kind, pts |-> shape.pts, tags |-> shape.tags]

Layer(name, shapes) ==
    [name |-> name, extent |-> Extent, keys |-> LayerKeys,
     values |-> LayerValues,
     features |-> [i \in 1..Len(shapes) |-> Feature(i, shapes[i])]]

Tile(x, layers) == [coords |-> [x |-> x, y |-> 0], layers |-> layers]

\* a decoded tile of one layer
InputTile(x, name, shapes) == Tile(x, <<Layer(name, shapes)>>)

\* a decoded tile of MaxLayers layers, layer k holding the features shapes[k]
LayerNames == <<"roads", "water", "pois", "earth">>
LayeredTile(shapes) == Tile(0, [k \in 1..MaxLayers |-> Layer(LayerNames[k], shapes[k])])

\* filter expressions
E_kind_is_park == JArr(<<JStr("=="), JArr(<<JStr("tag"), JStr("kind")>>),
                         JStr("park")>>)
E_key_is_name_en == JArr(<<JStr("=="), JArr(<<JStr("key")>>),
                           JStr("name:en")>>)

\* the tag predicate of the tag language filter: the key is name or
\* name:<lang> with a language other than ja
E_name_language ==
    JArr(<<JStr("all"), JArr(<<JStr("starts-with"), JArr(<<JStr("key")>>), JStr("name")>>),
           JArr(<<JStr("not"),
                  JArr(<<JStr("in"), JArr(<<JStr("regex-capture"), JArr(<<JStr("key")>>), JStr(NamePattern), JNum(1)>>),
                         JArr(<<JStr("literal"), JArr(<<JStr(""), JStr("ja")>>)>>)>>)>>)>>)

LayerFilter(feature, tag) == [feature |-> feature, tag |-> tag]

\* FilterProperties::layers
Only(name, lf) == [n \in {name} |-> lf]
Both(lf, wild) == [n \in {"roads", "*"} |-> IF n = "*" THEN wild ELSE lf]

\* region geometries on the pixel grid of the zoom level; tile x covers the
\* columns x * Extent .. x * Extent + Extent - 1
R_all == (0..(2 * Extent - 1)) \X (0..(Extent - 1))
R_west == {0} \X (0..(Extent - 1))

\* FilterFeature
Region(gtype, pts, layers) == [gtype |-> gtype, pts |-> pts, layers |-> layers]
Regions ==
    {Region("Polygon", R_all, Only("*", LayerFilter(JBool(TRUE), NoExpr))),
     Region("Polygon", R_all,
            Only("*", LayerFilter(JBool(FALSE), JBool(FALSE)))),
     Region("Polygon", R_all,
            Only("*", LayerFilter(E_kind_is_park, E_key_is_name_en))),
     Region("Polygon", R_west,
            Only("water", LayerFilter(JBool(TRUE), JBool(TRUE)))),
     Region("Polygon", R_all,
            Both(LayerFilter(NoExpr, E_key_is_name_en),
                 LayerFilter(JBool(TRUE), NoExpr))),
     Region("Polygon", R_west,
            Both(LayerFilter(E_kind_is_park, NoExpr),
                 LayerFilter(NoExpr, JBool(TRUE)))),
     Region("MultiPolygon", R_all,
            Only("*", LayerFilter(JBool(TRUE), NoExpr)))}

\* the global region of the tag language filter
R_name_language == Region("Polygon", R_all, Only("*", LayerFilter(NoExpr, E_name_language)))

\* Option<&FilterCollection>
NoFilter == [some |-> FALSE, features |-> <<>>]
SomeFilter(features) == [some |-> TRUE, features |-> features]

NoProbe == [region |-> 0, layer |-> 0, feature |-> 0, pair |-> 0,
            result |-> Err]

\* no transform call is in progress
TransformIdle ==
    /\ inTile = Tile(0, <<>>)
    /\ filterCollection = NoFilter
    /\ filterGeometry = NoGeometry
    /\ tileCompression = "None"
    /\ outTile = TileErr
    /\ step = "idle"
    /\ probe = NoProbe

\* no call into the expression code is in progress
ExprIdle ==
    /\ exprIn = JNull
    /\ exprOut = Err
    /\ exprStep = "idle"

\* no query of the spatial index is in progress
IndexIdle ==
    /\ indexIn = [features |-> <<>>, geom |-> {}]
    /\ indexOut = <<>>
    /\ indexStep = "idle"

\* Args and the files they name, as far as run looks at them
Args(input_exists, filter, filter_exists, output_pmtiles, tile_type_mvt) ==
    [input_exists |-> input_exists, filter |-> filter,
     filter_exists |-> filter_exists, output_pmtiles |-> output_pmtiles,
     tile_type_mvt |-> tile_type_mvt]

\* run has created the output and called process_tiles
RunIdle ==
    /\ runArgs = Args(TRUE, NoFilter, TRUE, TRUE, TRUE)
    /\ runPc = "process_tiles"
    /\ outputFile = "created"
    /\ runResult = "none"

(* --------------------------- channel state ----------------------------- *)
\* a reader task still owns its clones of coords_rx and in_tx
ReaderLive(r) == rdPc[r] \in {"recv", "hold"}

\* receivers of the coordinate channel: the clones moved into the readers
\* (the original coords_rx is dropped right after the spawn loop)
CoordsReceivers == {r \in Readers : ReaderLive(r)}

\* coords_tx is dropped when the enumerator's future ends
CoordsDisconnected == enumPc # "run"

\* sender handles of the input channel: one clone per live reader, plus the
\* original in_tx, which stays in process_tiles' scope until it returns
InSenders == Cardinality({r \in Readers : ReaderLive(r)})
             + (IF inTxAlive THEN 1 ELSE 0)

InDisconnected == InSenders = 0

\* in_rx is owned by the iterator inside the transformer task
InReceiverAlive == stPc = "run"

\* out_tx and its clones live inside try_for_each_with
OutDisconnected == stPc # "run"

\* out_rx is owned by the writer closure
OutReceiverAlive == wrPc = "recv"

Complete(task, ok) == Append(completed, [task |-> task, ok |-> ok])

PipeInit ==
    /\ enumPc = "run"
    /\ enumPos = 0
    /\ coordsQ = <<>>
    /\ rdPc = [r \in Readers |-> "recv"]
    /\ rdTile = [r \in Readers |-> NoTile]
    /\ inQ = <<>>
    /\ inTxAlive = TRUE
    /\ trPc = [t \in Transformers |-> "wait"]
    /\ trTile = [t \in Transformers |-> NoTile]
    /\ stPc = "run"
    /\ stErr = FALSE
    /\ stPanic = FALSE
    /\ outQ = <<>>
    /\ wrPc = "recv"
    /\ next = 0
    /\ buf = {}
    /\ written = <<>>
    /\ finalized = 0
    /\ completed = <<>>
    /\ joinLog = <<>>
    /\ returned = "none"
    /\ retTask = NoTask
    /\ failLog = <<>>
    /\ faults = 0
    /\ failedTiles = {}

Init ==
    /\ nTiles = NumTiles
    /\ PipeInit
    /\ TransformIdle
    /\ ExprIdle
    /\ IndexIdle
    /\ RunIdle

(* ---------------------------- transform calls -------------------------- *)
\* processing::transform_tile_with_compression; the result is the tile as a
\* reader of the archive decodes it
transform_tile_with_compression(coords, data, tile_compression, filter) ==
    LET compressed(bytes) ==
            IF bytes.status # "Ok" THEN bytes
            ELSE IF tile_compression \in {"Gzip", "None"} THEN bytes
            ELSE TilePanic
    IN compressed(transform_tile(coords, data, filter))

Compressions == {"Gzip", "None", "Brotli"}

InitTransform ==
    /\ \/ \E x \in {0, 1}, name \in {"roads", "water"}, shapes \in SeqsUpTo(FeatureShapes, MaxFeatures) :
              inTile = InputTile(x, name, shapes)
       \/ \E shapes \in [1..MaxLayers -> SeqsUpTo(FeatureShapes, 1)] : inTile = LayeredTile(shapes)
    /\ \/ filterCollection = NoFilter
       \/ \E f \in SeqsUpTo(Regions, MaxRegions) : filterCollection = SomeFilter(f)
       \/ filterCollection = SomeFilter(<<R_name_language>>)
    /\ nTiles = NumTiles
    /\ PipeInit
    /\ filterGeometry = NoGeometry
    /\ tileCompression = "None"
    /\ outTile = TileErr
    /\ step = "input"
    /\ probe = NoProbe
    /\ ExprIdle
    /\ IndexIdle
    /\ RunIdle

\* transform_tile_dynamic applied to the input
TransformTileDynamic ==
    /\ step = "input"
    /\ outTile' = transform_tile_dynamic(inTile.coords, inTile.layers,
                                         filterCollection)
    /\ step' = "transform_tile_dynamic"
    /\ UNCHANGED <<inTile, filterCollection, filterGeometry, tileCompression,
                   probe>>
    /\ UNCHANGED <<pipeVars, nTiles, exprVars, runVars, indexVars>>

\* the transformer closure of process_tiles (lines 113-118): the filter
\* argument is handed through, None for an absent filter and the geometry of
\* a region for a supplied one
TransformTile(c, g) ==
    /\ step = "input"
    /\ IF filterCollection.some
       THEN g \in {SomeGeometry(filterCollection.features[i].pts) :
                      i \in 1..Len(filterCollection.features)}
       ELSE g = NoGeometry
    /\ filterGeometry' = g
    /\ tileCompression' = c
    /\ outTile' = transform_tile_with_compression(inTile.coords,
                      inTile.layers, c, g)
    /\ step' = "transform_tile"
    /\ UNCHANGED <<inTile, filterCollection, probe>>
    /\ UNCHANGED <<pipeVars, nTiles, exprVars, runVars, indexVars>>

Probe(region, layer, feature, pair, result) ==
    [region |-> region, layer |-> layer, feature |-> feature, pair |-> pair,
     result |-> result]

\* the context the transform builds for feature f of layer l
FeatureContext(l, f, current_key) ==
    LET layer == inTile.layers[l] IN
    CompiledContext(layer.name, geometry_type(layer.features[f].kind),
                    property_map(layer.features[f], layer.keys, layer.values),
                    current_key)

\* CompiledFilterFeature::should_remove_feature of region r for feature f
ShouldRemoveFeature(r, l, f) ==
    /\ step = "input"
    /\ filterCollection.some
    /\ r \in 1..Len(filterCollection.features)
    /\ l \in 1..Len(inTile.layers)
    /\ f \in 1..Len(inTile.layers[l].features)
    /\ LET layers == compile_layers(filterCollection.features[r]) IN
       /\ layers.ok
       /\ probe' = Probe(r, l, f, 0,
                         should_remove_feature(layers.v,
                                               FeatureContext(l, f, None)))
    /\ step' = "should_remove_feature"
    /\ UNCHANGED <<inTile, filterCollection, filterGeometry, tileCompression,
                   outTile>>
    /\ UNCHANGED <<pipeVars, nTiles, exprVars, runVars, indexVars>>

\* CompiledFilterFeature::should_remove_tag of region r for tag pair j of f
ShouldRemoveTag(r, l, f, j) ==
    /\ step = "input"
    /\ filterCollection.some
    /\ r \in 1..Len(filterCollection.features)
    /\ l \in 1..Len(inTile.layers)
    /\ f \in 1..Len(inTile.layers[l].features)
    /\ LET layer == inTile.layers[l]
           layers == compile_layers(filterCollection.features[r])
       IN /\ j \in ValidPairs(layer.features[f].tags, layer.keys, layer.values)
          /\ layers.ok
          /\ probe' = Probe(r, l, f, j,
                 should_remove_tag(layers.v,
                     FeatureContext(l, f,
                         Some(KeyOf(layer.features[f].tags, j, layer.keys)))))
    /\ step' = "should_remove_tag"
    /\ UNCHANGED <<inTile, filterCollection, filterGeometry, tileCompression,
                   outTile>>
    /\ UNCHANGED <<pipeVars, nTiles, exprVars, runVars, indexVars>>

NextTransform ==
    \/ TransformTileDynamic
    \/ \E c \in Compressions, g \in {NoGeometry} \cup
                {SomeGeometry(pts) : pts \in {R_all, R_west}} :
           TransformTile(c, g)
    \/ \E r \in 1..MaxRegions, l \in 1..1, f \in 1..MaxFeatures :
           ShouldRemoveFeature(r, l, f)
    \/ \E r \in 1..MaxRegions, l \in 1..1, f \in 1..MaxFeatures,
          j \in 1..2 :
           ShouldRemoveTag(r, l, f, j)

SpecTransform == InitTransform /\ [][NextTransform]_vars

(* ----------------------------- enumerator ------------------------------ *)
\* coords_tx.send((i, coord)).unwrap() with a receiver alive
EnumSend ==
    /\ enumPc = "run"
    /\ enumPos < nTiles
    /\ CoordsReceivers # {}
    /\ coordsQ' = Append(coordsQ, enumPos)
    /\ enumPos' = enumPos + 1
    /\ UNCHANGED <<enumPc, rdPc, rdTile, inQ, inTxAlive, trPc, trTile, stPc,
                   stErr, stPanic, outQ, wrPc, next, buf, written, finalized,
                   completed, joinLog, returned, retTask, failLog, faults,
                   failedTiles>>
    /\ UNCHANGED otherVars

\* send on a channel whose receivers are all gone returns Err; unwrap panics
EnumPanic ==
    /\ enumPc = "run"
    /\ enumPos < nTiles
    /\ CoordsReceivers = {}
    /\ enumPc' = "panicked"
    /\ completed' = Complete(EnumTask, FALSE)
    /\ failLog' = Append(failLog, EnumTask)
    /\ UNCHANGED <<enumPos, coordsQ, rdPc, rdTile, inQ, inTxAlive, trPc,
                   trTile, stPc, stErr, stPanic, outQ, wrPc, next, buf, written,
                   finalized, joinLog, returned, retTask, faults, failedTiles>>
    /\ UNCHANGED otherVars

\* the for loop ends: drop(coords_tx); Ok(())
EnumEnd ==
    /\ enumPc = "run"
    /\ enumPos = nTiles
    /\ enumPc' = "done"
    /\ completed' = Complete(EnumTask, TRUE)
    /\ UNCHANGED <<enumPos, coordsQ, rdPc, rdTile, inQ, inTxAlive, trPc,
                   trTile, stPc, stErr, stPanic, outQ, wrPc, next, buf, written,
                   finalized, joinLog, returned, retTask, failLog, faults,
                   failedTiles>>
    /\ UNCHANGED otherVars

(* ------------------------------- readers ------------------------------- *)
\* coords_rx.recv() returns Ok((i, coord))
RdRecv(r) ==
    /\ rdPc[r] = "recv"
    /\ coordsQ # <<>>
    /\ rdTile' = [rdTile EXCEPT ![r] = Head(coordsQ)]
    /\ coordsQ' = Tail(coordsQ)
    /\ rdPc' = [rdPc EXCEPT ![r] = "hold"]
    /\ UNCHANGED <<enumPc, enumPos, inQ, inTxAlive, trPc, trTile, stPc,
                   stErr, stPanic, outQ, wrPc, next, buf, written, finalized,
                   completed, joinLog, returned, retTask, failLog, faults,
                   failedTiles>>
    /\ UNCHANGED otherVars

\* coords_rx.recv() returns Err: queue empty and coords_tx dropped
RdEnd(r) ==
    /\ rdPc[r] = "recv"
    /\ coordsQ = <<>>
    /\ CoordsDisconnected
    /\ rdPc' = [rdPc EXCEPT ![r] = "done"]
    /\ completed' = Complete(ReaderTask(r), TRUE)
    /\ UNCHANGED <<enumPc, enumPos, coordsQ, rdTile, inQ, inTxAlive, trPc,
                   trTile, stPc, stErr, stPanic, outQ, wrPc, next, buf, written,
                   finalized, joinLog, returned, retTask, failLog, faults,
                   failedTiles>>
    /\ UNCHANGED otherVars

\* the tile was read; tx.send_async(item).await succeeds
RdSend(r) ==
    /\ rdPc[r] = "hold"
    /\ InReceiverAlive
    /\ Len(inQ) < QUEUE_CAPACITY
    /\ inQ' = Append(inQ, rdTile[r])
    /\ rdTile' = [rdTile EXCEPT ![r] = NoTile]
    /\ rdPc' = [rdPc EXCEPT ![r] = "recv"]
    /\ UNCHANGED <<enumPc, enumPos, coordsQ, inTxAlive, trPc, trTile, stPc,
                   stErr, stPanic, outQ, wrPc, next, buf, written, finalized,
                   completed, joinLog, returned, retTask, failLog, faults,
                   failedTiles>>
    /\ UNCHANGED otherVars

\* tx.send_async(item).await? with in_rx dropped
RdSendErr(r) ==
    /\ rdPc[r] = "hold"
    /\ ~InReceiverAlive
    /\ rdPc' = [rdPc EXCEPT ![r] = "failed"]
    /\ rdTile' = [rdTile EXCEPT ![r] = NoTile]
    /\ completed' = Complete(ReaderTask(r), FALSE)
    /\ failLog' = Append(failLog, ReaderTask(r))
    /\ UNCHANGED <<enumPc, enumPos, coordsQ, inQ, inTxAlive, trPc, trTile,
                   stPc, stErr, stPanic, outQ, wrPc, next, buf, written, finalized,
                   joinLog, returned, retTask, faults, failedTiles>>
    /\ UNCHANGED otherVars

\* pool.get() or get_tile_decompressed fails, or the tile is missing (unwrap)
RdFail(r) ==
    /\ rdPc[r] = "hold"
    /\ faults < MaxFaults
    /\ faults' = faults + 1
    /\ rdPc' = [rdPc EXCEPT ![r] = "failed"]
    /\ rdTile' = [rdTile EXCEPT ![r] = NoTile]
    /\ completed' = Complete(ReaderTask(r), FALSE)
    /\ failLog' = Append(failLog, ReaderTask(r))
    /\ UNCHANGED <<enumPc, enumPos, coordsQ, inQ, inTxAlive, trPc, trTile,
                   stPc, stErr, stPanic, outQ, wrPc, next, buf, written, finalized,
                   joinLog, returned, retTask, failedTiles>>
    /\ UNCHANGED otherVars

\* process_tiles has returned: dropping the JoinSet aborts the async tasks
RdAbort(r) ==
    /\ returned # "none"
    /\ ReaderLive(r)
    /\ rdPc' = [rdPc EXCEPT ![r] = "aborted"]
    /\ rdTile' = [rdTile EXCEPT ![r] = NoTile]
    /\ UNCHANGED <<enumPc, enumPos, coordsQ, inQ, inTxAlive, trPc, trTile,
                   stPc, stErr, stPanic, outQ, wrPc, next, buf, written, finalized,
                   completed, joinLog, returned, retTask, failLog, faults,
                   failedTiles>>
    /\ UNCHANGED otherVars

(* ------------------------- transformer stage --------------------------- *)
\* A rayon thread inside par_bridge's fold_with loop: it locks the shared
\* iterator and calls next(), which is a blocking receive on in_rx.
TrTake(t) ==
    /\ stPc = "run"
    /\ trPc[t] = "wait"
    /\ inQ # <<>>
    /\ trTile' = [trTile EXCEPT ![t] = Head(inQ)]
    /\ inQ' = Tail(inQ)
    /\ trPc' = [trPc EXCEPT ![t] = "work"]
    /\ UNCHANGED <<enumPc, enumPos, coordsQ, rdPc, rdTile, inTxAlive, stPc,
                   stErr, stPanic, outQ, wrPc, next, buf, written, finalized,
                   completed, joinLog, returned, retTask, failLog, faults,
                   failedTiles>>
    /\ UNCHANGED otherVars

\* next() returns None: the input channel is empty and has no sender left
TrIterEnd(t) ==
    /\ stPc = "run"
    /\ trPc[t] = "wait"
    /\ inQ = <<>>
    /\ InDisconnected
    /\ trPc' = [trPc EXCEPT ![t] = "ret"]
    /\ UNCHANGED <<enumPc, enumPos, coordsQ, rdPc, rdTile, inQ, inTxAlive,
                   trTile, stPc, stErr, stPanic, outQ, wrPc, next, buf,
                   written, finalized, completed, joinLog, returned, retTask,
                   failLog, faults, failedTiles>>
    /\ UNCHANGED otherVars

\* after consume() the folder checks full(): an Err seen by any thread stops it
AfterConsume(err) == IF err THEN "ret" ELSE "wait"

\* transform_tile_with_compression returns Ok and out_tx.send succeeds
TrSend(t) ==
    /\ stPc = "run"
    /\ trPc[t] = "work"
    /\ OutReceiverAlive
    /\ Len(outQ) < QUEUE_CAPACITY
    /\ outQ' = Append(outQ, trTile[t])
    /\ trTile' = [trTile EXCEPT ![t] = NoTile]
    /\ trPc' = [trPc EXCEPT ![t] = AfterConsume(stErr)]
    /\ UNCHANGED <<enumPc, enumPos, coordsQ, rdPc, rdTile, inQ, inTxAlive,
                   stPc, stErr, stPanic, wrPc, next, buf, written, finalized,
                   completed, joinLog, returned, retTask, failLog, faults,
                   failedTiles>>
    /\ UNCHANGED otherVars

\* out_tx.send(...)? with out_rx dropped: the closure returns Err
TrSendErr(t) ==
    /\ stPc = "run"
    /\ trPc[t] = "work"
    /\ ~OutReceiverAlive
    /\ stErr' = TRUE
    /\ trTile' = [trTile EXCEPT ![t] = NoTile]
    /\ trPc' = [trPc EXCEPT ![t] = "ret"]
    /\ UNCHANGED <<enumPc, enumPos, coordsQ, rdPc, rdTile, inQ, inTxAlive,
                   stPc, stPanic, outQ, wrPc, next, buf, written, finalized,
                   completed, joinLog, returned, retTask, failLog, faults,
                   failedTiles>>
    /\ UNCHANGED otherVars

\* the closure sends what the transform produced and then returns Err
TrFailAfterSend(t) ==
    /\ stPc = "run"
    /\ trPc[t] = "work"
    /\ faults < MaxFaults
    /\ OutReceiverAlive
    /\ Len(outQ) < QUEUE_CAPACITY
    /\ outQ' = Append(outQ, trTile[t])
    /\ faults' = faults + 1
    /\ stErr' = TRUE
    /\ failedTiles' = failedTiles \cup {trTile[t]}
    /\ trTile' = [trTile EXCEPT ![t] = NoTile]
    /\ trPc' = [trPc EXCEPT ![t] = "ret"]
    /\ UNCHANGED <<enumPc, enumPos, coordsQ, rdPc, rdTile, inQ, inTxAlive,
                   stPc, stPanic, wrPc, next, buf, written, finalized,
                   completed, joinLog, returned, retTask, failLog>>
    /\ UNCHANGED otherVars

\* transform_tile_with_compression(...)? returns Err for this tile
TrFail(t) ==
    /\ stPc = "run"
    /\ trPc[t] = "work"
    /\ faults < MaxFaults
    /\ faults' = faults + 1
    /\ stErr' = TRUE
    /\ failedTiles' = failedTiles \cup {trTile[t]}
    /\ trTile' = [trTile EXCEPT ![t] = NoTile]
    /\ trPc' = [trPc EXCEPT ![t] = "ret"]
    /\ UNCHANGED <<enumPc, enumPos, coordsQ, rdPc, rdTile, inQ, inTxAlive,
                   stPc, stPanic, outQ, wrPc, next, buf, written, finalized,
                   completed, joinLog, returned, retTask, failLog>>
    /\ UNCHANGED otherVars

\* the closure panics (unsupported compression, index out of range): the
\* thread unwinds, the other threads keep consuming, the panic is rethrown
\* when try_for_each_with joins
TrPanic(t) ==
    /\ stPc = "run"
    /\ trPc[t] = "work"
    /\ faults < MaxFaults
    /\ faults' = faults + 1
    /\ stPanic' = TRUE
    /\ failedTiles' = failedTiles \cup {trTile[t]}
    /\ trTile' = [trTile EXCEPT ![t] = NoTile]
    /\ trPc' = [trPc EXCEPT ![t] = "ret"]
    /\ UNCHANGED <<enumPc, enumPos, coordsQ, rdPc, rdTile, inQ, inTxAlive,
                   stPc, stErr, outQ, wrPc, next, buf, written, finalized,
                   completed, joinLog, returned, retTask, failLog>>
    /\ UNCHANGED otherVars

\* every thread has left fold_with: try_for_each_with returns, the closure of
\* spawn_blocking ends and drops in_rx and out_tx
StageEnd ==
    /\ stPc = "run"
    /\ \A t \in Transformers : trPc[t] = "ret"
    /\ stPc' = IF stErr \/ stPanic THEN "failed" ELSE "done"
    /\ completed' = Complete(StageTask, ~(stErr \/ stPanic))
    /\ failLog' = IF stErr \/ stPanic THEN Append(failLog, StageTask)
                  ELSE failLog
    /\ UNCHANGED <<enumPc, enumPos, coordsQ, rdPc, rdTile, inQ, inTxAlive,
                   trPc, trTile, stErr, stPanic, outQ, wrPc, next, buf,
                   written, finalized, joinLog, returned, retTask, faults,
                   failedTiles>>
    /\ UNCHANGED otherVars

(* -------------------------------- writer ------------------------------- *)
\* the inner loop `while let Some(v) = buf.remove(&next)`: the sequence
\* indexes it takes out of the map, starting at n, until n is not a key
RECURSIVE DrainSeq(_, _)
\* (a writer that hands over whatever is lowest in the map, gap or not)
RECURSIVE DrainLowest(_, _)
DrainLowest(b, n) ==
    IF b = {} THEN <<>>
    ELSE LET m == CHOOSE x \in b : \A y \in b : x <= y
         IN <<m>> \o DrainLowest(b \ {m}, n + 1)

DrainSeq(b, n) == IF n \in b THEN <<n>> \o DrainSeq(b \ {n}, n + 1) ELSE <<>>

SeqRange(s) == {s[k] : k \in 1..Len(s)}

\* one turn of `while let Ok(..) = out_rx.recv()`: buf.insert(i, ..), then
\* every add_tile of the inner loop succeeds
WrRecv ==
    /\ wrPc = "recv"
    /\ outQ # <<>>
    /\ LET b == buf \cup {Head(outQ)}
           d == DrainSeq(b, next)
       IN /\ written' = written \o d
          /\ buf' = b \ SeqRange(d)
          /\ next' = next + Len(d)
    /\ outQ' = Tail(outQ)
    /\ UNCHANGED <<enumPc, enumPos, coordsQ, rdPc, rdTile, inQ, inTxAlive,
                   trPc, trTile, stPc, stErr, stPanic, wrPc, finalized,
                   completed, joinLog, returned, retTask, failLog, faults,
                   failedTiles>>
    /\ UNCHANGED otherVars

\* the same turn, but the k-th add_tile of the inner loop returns Err: the
\* closure returns at the `?`, dropping out_rx, buf and out_pmt
WrAddFail ==
    /\ wrPc = "recv"
    /\ outQ # <<>>
    /\ faults < MaxFaults
    /\ LET b == buf \cup {Head(outQ)}
           d == DrainSeq(b, next)
       IN \E k \in 1..Len(d) :
            /\ written' = written \o SubSeq(d, 1, k - 1)
            /\ buf' = b \ SeqRange(SubSeq(d, 1, k))
            /\ next' = next + (k - 1)
    /\ outQ' = Tail(outQ)
    /\ faults' = faults + 1
    /\ wrPc' = "failed"
    /\ completed' = Complete(WriterTask, FALSE)
    /\ failLog' = Append(failLog, WriterTask)
    /\ UNCHANGED <<enumPc, enumPos, coordsQ, rdPc, rdTile, inQ, inTxAlive,
                   trPc, trTile, stPc, stErr, stPanic, finalized, joinLog,
                   returned, retTask, failedTiles>>
    /\ UNCHANGED otherVars

\* out_rx.recv() returns Err: the loop ends and the closure returns Ok(()),
\* dropping out_pmt; the closure makes no further call on the archive
WrEnd ==
    /\ wrPc = "recv"
    /\ outQ = <<>>
    /\ OutDisconnected
    /\ wrPc' = "done"
    /\ completed' = Complete(WriterTask, TRUE)
    /\ UNCHANGED <<enumPc, enumPos, coordsQ, rdPc, rdTile, inQ, inTxAlive,
                   trPc, trTile, stPc, stErr, stPanic, outQ, next, buf,
                   written, finalized, joinLog, returned, retTask, failLog,
                   faults, failedTiles>>
    /\ UNCHANGED otherVars

(* ------------------------------ supervisor ----------------------------- *)
\* (a join loop that drops the results instead of applying `??`)
JoinOutcomeIgnoring(ok, n) == IF n = NumTasks THEN "Ok" ELSE "none"

\* the result process_tiles returns after taking one join_next result:
\* res?? returns the error at once, Ok(()) follows the last task
JoinOutcome(ok, n) ==
    IF ~ok THEN "Err" ELSE IF n = NumTasks THEN "Ok" ELSE "none"

\* while let Some(res) = tasks.join_next().await { res??; }
Join ==
    /\ returned = "none"
    /\ completed # <<>>
    /\ LET res == Head(completed)
           out == JoinOutcome(res.ok, Len(joinLog) + 1)
       IN /\ returned' = out
          /\ retTask' = IF out = "Err" THEN res.task ELSE retTask
          /\ inTxAlive' = (out = "none")
    /\ completed' = Tail(completed)
    /\ joinLog' = Append(joinLog, Head(completed))
    /\ UNCHANGED <<enumPc, enumPos, coordsQ, rdPc, rdTile, inQ, trPc, trTile,
                   stPc, stErr, stPanic, outQ, wrPc, next, buf, written,
                   finalized, failLog, faults, failedTiles>>
    /\ UNCHANGED otherVars

Next ==
    \/ EnumSend
    \/ EnumPanic
    \/ EnumEnd
    \/ \E r \in Readers : RdRecv(r)
    \/ \E r \in Readers : RdEnd(r)
    \/ \E r \in Readers : RdSend(r)
    \/ \E r \in Readers : RdSendErr(r)
    \/ \E r \in Readers : RdFail(r)
    \/ \E r \in Readers : RdAbort(r)
    \/ \E t \in Transformers : TrTake(t)
    \/ \E t \in Transformers : TrIterEnd(t)
    \/ \E t \in Transformers : TrSend(t)
    \/ \E t \in Transformers : TrSendErr(t)
    \/ \E t \in Transformers : TrFail(t)
    \/ \E t \in Transformers : TrPanic(t)
    \/ StageEnd
    \/ WrRecv
    \/ WrAddFail
    \/ WrEnd
    \/ Join

Spec == Init /\ [][Next]_vars

\* Scheduling: tokio polls every ready task, rayon and the blocking pool run
\* every thread that is not blocked, and a blocked channel operation returns
\* once it can.  Failures of the environment and the moment an abort takes
\* effect are not forced.
Fairness ==
    /\ WF_vars(EnumSend) /\ WF_vars(EnumPanic) /\ WF_vars(EnumEnd)
    /\ \A r \in Readers :
         /\ WF_vars(RdRecv(r)) /\ WF_vars(RdEnd(r))
         /\ WF_vars(RdSend(r)) /\ WF_vars(RdSendErr(r))
    /\ \A t \in Transformers :
         /\ WF_vars(TrTake(t)) /\ WF_vars(TrIterEnd(t))
         /\ WF_vars(TrSend(t)) /\ WF_vars(TrSendErr(t))
    /\ WF_vars(StageEnd)
    /\ WF_vars(WrRecv) /\ WF_vars(WrEnd)
    /\ WF_vars(Join)

FairSpec == Spec /\ Fairness

\* Fault-free runs over a long archive: the steps of Next that need no
\* failure and no return of process_tiles.
InitLong ==
    /\ nTiles = LongTiles
    /\ PipeInit
    /\ TransformIdle
    /\ ExprIdle
    /\ IndexIdle
    /\ RunIdle

NextLong ==
    \/ EnumSend
    \/ EnumEnd
    \/ \E r \in Readers : RdRecv(r)
    \/ \E r \in Readers : RdEnd(r)
    \/ \E r \in Readers : RdSend(r)
    \/ \E t \in Transformers : TrTake(t)
    \/ \E t \in Transformers : TrSend(t)
    \/ WrRecv
    \/ Join

SpecLong == InitLong /\ [][NextLong]_vars

(* ------------------------------ lib.rs::run ---------------------------- *)
\* filter expressions with a regular expression
E_key_matches_name == JArr(<<JStr("regex-match"), JArr(<<JStr("key")>>), JStr("^name")>>)
E_key_matches_bracket == JArr(<<JStr("regex-match"), JArr(<<JStr("key")>>), JStr("[")>>)
E_not_key_matches_class == JArr(<<JStr("not"), JArr(<<JStr("regex-match"), JArr(<<JStr("key")>>), JStr("[a-z")>>)>>)

\* the filter files of the runs
RunFilters ==
    {NoFilter,
     SomeFilter(<<Region("Polygon", R_all, Only("*", LayerFilter(E_kind_is_park, E_key_matches_name)))>>),
     SomeFilter(<<Region("Polygon", R_all, Only("*", LayerFilter(NoExpr, E_key_matches_bracket)))>>),
     SomeFilter(<<Region("Polygon", R_all, Only("*", LayerFilter(JBool(TRUE), NoExpr))),
                  Region("Polygon", R_west, Both(LayerFilter(E_not_key_matches_class, NoExpr), LayerFilter(NoExpr, JBool(TRUE))))>>)}

\* FilterFeature::compile: the layers are compiled before the geometry is
\* converted
FilterFeature_compile(feature) ==
    LET with_geometry(compiled_layers) ==
            IF ~compiled_layers.ok THEN Err
            ELSE Ok([gtype |-> feature.gtype, pts |-> feature.pts, layers |-> compiled_layers.v])
    IN with_geometry(compile_layers(feature))

\* FilterCollection::compile
FilterCollection_compile(fc) ==
    LET collect(compiled_features) ==
            IF \E i \in DOMAIN compiled_features : ~compiled_features[i].ok THEN Err
            ELSE Ok([i \in DOMAIN compiled_features |-> compiled_features[i].v])
    IN collect([i \in 1..Len(fc.features) |-> FilterFeature_compile(fc.features[i])])

RunArgs ==
    {Args(i, f, e, o, m) : i \in BOOLEAN, f \in RunFilters, e \in BOOLEAN, o \in BOOLEAN, m \in BOOLEAN}

InitRun ==
    /\ runArgs \in {a \in RunArgs : a.filter.some \/ a.filter_exists}
    /\ runPc = "start"
    /\ outputFile \in {"absent", "stale"}
    /\ runResult = "none"
    /\ nTiles = NumTiles
    /\ PipeInit
    /\ TransformIdle
    /\ ExprIdle
    /\ IndexIdle

\* run, lines 41-43: remove any existing output
RunRemoveOutput ==
    /\ runPc = "start"
    /\ outputFile' = "absent"
    /\ runPc' = "input"
    /\ UNCHANGED <<runArgs, runResult, pipeVars, nTiles, xfVars, exprVars, indexVars>>

\* run, lines 45-48: the input must exist
RunCheckInput ==
    /\ runPc = "input"
    /\ IF runArgs.input_exists
       THEN runPc' = "filter" /\ UNCHANGED runResult
       ELSE runPc' = "returned" /\ runResult' = "Panic"
    /\ UNCHANGED <<runArgs, outputFile, pipeVars, nTiles, xfVars, exprVars, indexVars>>

\* run, lines 51-60: read, parse and compile the filter file
RunCompileFilter ==
    /\ runPc = "filter"
    /\ IF ~runArgs.filter.some
       THEN runPc' = "output" /\ UNCHANGED runResult
       ELSE IF ~runArgs.filter_exists
       THEN runPc' = "returned" /\ runResult' = "Panic"
       ELSE IF FilterCollection_compile(runArgs.filter).ok
       THEN runPc' = "output" /\ UNCHANGED runResult
       ELSE runPc' = "returned" /\ runResult' = "Err"
    /\ UNCHANGED <<runArgs, outputFile, pipeVars, nTiles, xfVars, exprVars, indexVars>>

\* run, lines 62-65: the output must have the pmtiles extension
RunCheckOutput ==
    /\ runPc = "output"
    /\ IF runArgs.output_pmtiles
       THEN runPc' = "create" /\ UNCHANGED runResult
       ELSE runPc' = "returned" /\ runResult' = "Panic"
    /\ UNCHANGED <<runArgs, outputFile, pipeVars, nTiles, xfVars, exprVars, indexVars>>

\* run, lines 68-69: open the input and File::create the output
RunCreateOutput ==
    /\ runPc = "create"
    /\ outputFile' = "created"
    /\ runPc' = "header"
    /\ UNCHANGED <<runArgs, runResult, pipeVars, nTiles, xfVars, exprVars, indexVars>>

\* run, lines 70-95: the header's tile type must be Mvt; the writer is built
RunCheckHeader ==
    /\ runPc = "header"
    /\ IF runArgs.tile_type_mvt
       THEN runPc' = "process_tiles" /\ UNCHANGED runResult
       ELSE runPc' = "returned" /\ runResult' = "Panic"
    /\ UNCHANGED <<runArgs, outputFile, pipeVars, nTiles, xfVars, exprVars, indexVars>>

\* run, lines 97-100: process_tiles has returned
RunReturn ==
    /\ runPc = "process_tiles"
    /\ returned # "none"
    /\ runResult' = returned
    /\ runPc' = "returned"
    /\ UNCHANGED <<runArgs, outputFile, pipeVars, nTiles, xfVars, exprVars, indexVars>>

\* the steps of process_tiles are taken while run awaits it
NextRun ==
    \/ RunRemoveOutput
    \/ RunCheckInput
    \/ RunCompileFilter
    \/ RunCheckOutput
    \/ RunCreateOutput
    \/ RunCheckHeader
    \/ RunReturn
    \/ runPc = "process_tiles" /\ Next

SpecRun == InitRun /\ [][NextRun]_vars

(* --------------------- queries of the spatial index -------------------- *)
\* geometries on the grid: empty, points, a diagonal pair, a column, a block
IndexGeometries ==
    {{}, {<<0, 0>>}, {<<0, 1>>}, {<<0, 0>>, <<1, 1>>}, {<<1, 0>>, <<1, 1>>}, {<<2, 0>>},
     (0..1) \X (0..1)}

InitIndex ==
    /\ \E geoms \in SeqsUpTo(IndexGeometries, MaxRegions), geom \in IndexGeometries :
           indexIn = [features |-> [i \in 1..Len(geoms) |-> CompiledFilterFeature(geoms[i])], geom |-> geom]
    /\ indexOut = <<>>
    /\ indexStep = "input"
    /\ nTiles = NumTiles
    /\ PipeInit
    /\ TransformIdle
    /\ ExprIdle
    /\ RunIdle

\* the collection is built and queried; the R-tree hands out the located
\* entries in one of the possible orders
GetFilterFeatures ==
    /\ indexStep = "input"
    /\ LET self == CompiledFilterCollection_new(indexIn.features)
           rect == bounding_rect(indexIn.geom)
           located == IF rect.some
                      THEN locate_in_envelope_intersecting(self.feature_index, envelope_from_rect(rect))
                      ELSE {}
       IN \E order \in Orders(located) :
              indexOut' = get_filter_features(self, indexIn.geom, order)
    /\ indexStep' = "get_filter_features"
    /\ UNCHANGED <<indexIn, pipeVars, nTiles, xfVars, exprVars, runVars>>

NextIndex == GetFilterFeatures

SpecIndex == InitIndex /\ [][NextIndex]_vars

(* ------------------- calls into the expression code -------------------- *)
\* the operator tags of FILTERING.md and tags that are not operators
OperatorTags ==
    {"==", "!=", "<", ">", "<=", ">=", "any", "all", "none", "not", "!", "in",
     "starts-with", "ends-with", "regex-match", "regex-capture", "boolean",
     "literal", "tag", "key", "type"}
UnknownTags == {"invalid-op", "not-in", "$type", "ANY"}

\* the first element of an array expression
Heads == {JStr(t) : t \in OperatorTags \cup UnknownTags} \cup {JNum(1), JNull}

E_literal_array == JArr(<<JStr("literal"), JArr(<<JStr("park"), JNum(1), JStr("park"), JStr("1")>>)>>)

\* the arguments: scalars, an object, well-formed and malformed expressions
ArgAtoms ==
    {JStr("kind"), JNum(1), JStr("["), JObj, JArr(<<JStr("key")>>),
     JArr(<<JStr("bogus")>>), JArr(<<JStr("not")>>), E_literal_array}

\* an empty array, an object and the scalars
ScalarInputs == {JArr(<<>>), JObj, JStr("park"), JNum(0), JFloat("1.5"), JBool(TRUE), JNull}

\* contexts of the compiled executor
NoProperties == [k \in {} |-> StringValue("")]
Context_park == CompiledContext("roads", "Point", [k \in {"kind"} |-> StringValue("park")], Some("name"))
Context_bare == CompiledContext("water", "Polygon", NoProperties, None)

\* the input of a call: a JSON expression with a context, or values
\* which function the call is to: "compile" (and then evaluate), "to_bool",
\* "evaluate_expression"
ExprInput(call, expr, values, context, executor_context) ==
    [call |-> call, expr |-> expr, values |-> values, context |-> context, executor_context |-> executor_context]

\* expression values: what from_json_value and from_mvt_value produce (a
\* Float holds the rendering of an f64)
ScalarValues ==
    {EV_Null, EV_Boolean(FALSE), EV_Boolean(TRUE), EV_String(""), EV_String("0"), EV_String("park"),
     EV_Number(0), EV_Number(1), EV_Number(-1), EV_Float("0"), EV_Float("0.0"), EV_Float("-0"), EV_Float("1.5"), EV_Float("NaN")}
Values ==
    ScalarValues \cup {EV_Array(<<>>), EV_Array(<<EV_Null>>), EV_Array(<<EV_Boolean(FALSE), EV_Number(0)>>)}

\* an integer property read and compared with 0, the typed values it can
\* have, and the feature that has it
E_tag_count == JArr(<<JStr("tag"), JStr("count")>>)
E_count_positive == JArr(<<JStr(">"), E_tag_count, JNum(0)>>)
IntegerValues == {IntValue(i) : i \in I64} \cup {SintValue(i) : i \in I64} \cup {UintValue(u) : u \in U64}
Context_count(v) == CompiledContext("roads", "Point", [k \in {"count"} |-> v], None)

\* expressions the compiled executor evaluates, and their coercions
EvalBase ==
    {JStr(""), JStr("park"), JNum(0), JNum(2), JFloat("0.0"), JFloat("1.5"), JBool(TRUE), JBool(FALSE), JNull,
     JArr(<<JStr("literal"), JArr(<<>>)>>), JArr(<<JStr("literal"), JArr(<<JNum(0)>>)>>),
     JArr(<<JStr("tag"), JStr("kind")>>), JArr(<<JStr("tag"), JStr("name")>>), JArr(<<JStr("key")>>), JArr(<<JStr("type")>>),
     E_kind_is_park, E_key_is_name_en, JArr(<<JStr("!"), JArr(<<JStr("key")>>)>>), JArr(<<JStr("any")>>), JArr(<<JStr("all")>>),
     JArr(<<JStr("none"), JArr(<<JStr("key")>>), JStr("")>>), JArr(<<JStr("in"), JArr(<<JStr("tag"), JStr("kind")>>), E_literal_array>>),
     JArr(<<JStr("starts-with"), JArr(<<JStr("key")>>), JStr("na")>>),
     JArr(<<JStr("=="), JArr(<<JStr("tag"), JStr("name")>>), JStr("")>>), JArr(<<JStr("=="), JArr(<<JStr("key")>>), JStr("")>>)}
EvalExpressions == EvalBase \cup {JArr(<<JStr("boolean"), e>>) : e \in EvalBase}

\* logical operators over children that are true, false, decided by the
\* context, or an error to evaluate (a bare string is not an expression of
\* FilterExecutor::evaluate_expression)
Children == {JBool(TRUE), JBool(FALSE), E_kind_is_park, JStr("park")}
LogicalInputs ==
    {JArr(<<JStr(op)>> \o children) : op \in {"any", "all", "none", "not", "!"}, children \in SeqsUpTo(Children, MaxArgs)}

\* contexts of FilterExecutor
Tags_park == [k \in {"kind"} |-> "park"]
Tags_house == [k \in {"kind"} |-> "house"]
Executor_park == EvaluationContext("roads", "Point", Tags_park, None, None)
Executor_house == EvaluationContext("roads", "Point", Tags_house, None, None)
Executor_key == EvaluationContext("roads", "Point", Tags_park, Some("name"), None)

\* the context terminals ["tag", name] and ["key"], compared with the empty
\* string and coerced, as FilterExecutor is given them
Terminals == {JArr(<<JStr("tag"), JStr("kind")>>), JArr(<<JStr("tag"), JStr("name")>>), JArr(<<JStr("key")>>)}
TerminalInputs ==
    {JArr(<<JStr(op), t, JStr("")>>) : op \in {"==", "!="}, t \in Terminals} \cup {JArr(<<JStr("boolean"), t>>) : t \in Terminals}

\* values of the kinds the comparison orders
OrderValues ==
    {EV_Null, EV_Boolean(FALSE), EV_Boolean(TRUE), EV_Number(1), EV_Number(9), EV_Number(10),
     EV_Float("1.0"), EV_Float("1.5"), EV_String(""), EV_String("9"), EV_String("10"), EV_String("park")}

\* a comparison operator applied to two literals
Holds(op, x, y) ==
    evaluate(Compiled(op, <<Compiled("Literal", <<>>, x), Compiled("Literal", <<>>, y)>>, EV_Null), Context_bare).b

\* the inputs of the calls
CompileCall(e, c) == ExprInput("compile", e, <<>>, c, Executor_park)
CompareCall(a, b, c) == ExprInput("compare", JNull, <<a, b, c>>, Context_bare, Executor_park)
EvaluateExpressionCall(e, c) == ExprInput("evaluate_expression", e, <<>>, Context_bare, c)
ToBoolCall(v) == ExprInput("to_bool", JNull, <<v>>, Context_bare, Executor_park)

InitExpr ==
    /\ \/ \E h \in Heads, args \in SeqsUpTo(ArgAtoms, MaxArgs) : exprIn = CompileCall(JArr(<<h>> \o args), Context_bare)
       \/ \E e \in ScalarInputs : exprIn = CompileCall(e, Context_bare)
       \/ \E e \in EvalExpressions, c \in {Context_park, Context_bare} : exprIn = CompileCall(e, c)
       \/ \E e \in {E_tag_count, E_count_positive}, v \in IntegerValues : exprIn = CompileCall(e, Context_count(v))
       \/ \E a \in OrderValues, b \in OrderValues, c \in OrderValues : exprIn = CompareCall(a, b, c)
       \/ \E e \in LogicalInputs, c \in {Executor_park, Executor_house} : exprIn = EvaluateExpressionCall(e, c)
       \/ \E e \in TerminalInputs, c \in {Executor_park, Executor_key} : exprIn = EvaluateExpressionCall(e, c)
       \/ \E v \in Values : exprIn = ToBoolCall(v)
    /\ exprOut = Err
    /\ exprStep = "input"
    /\ nTiles = NumTiles
    /\ PipeInit
    /\ TransformIdle
    /\ RunIdle
    /\ IndexIdle

\* ExpressionCompiler::compile applied to the input
Compile ==
    /\ exprStep = "input"
    /\ exprIn.call = "compile"
    /\ exprOut' = compile(exprIn.expr)
    /\ exprStep' = "compile"
    /\ UNCHANGED <<exprIn, pipeVars, nTiles, xfVars, runVars, indexVars>>

\* ExpressionValue::to_bool applied to the input value
ToBool ==
    /\ exprStep = "input"
    /\ exprIn.call = "to_bool"
    /\ exprOut' = Ok(to_bool(exprIn.values[1]))
    /\ exprStep' = "to_bool"
    /\ UNCHANGED <<exprIn, pipeVars, nTiles, xfVars, runVars, indexVars>>

\* ExpressionExecutor::evaluate applied to the compiled input
Evaluate ==
    /\ exprStep = "compile"
    /\ exprIn.expr \in EvalExpressions \cup {E_tag_count, E_count_positive}
    /\ exprOut.ok
    /\ exprOut' = evaluate(exprOut.v, exprIn.context)
    /\ exprStep' = "evaluate"
    /\ UNCHANGED <<exprIn, pipeVars, nTiles, xfVars, runVars, indexVars>>

\* FilterExecutor::evaluate_expression applied to the input
EvaluateExpression ==
    /\ exprStep = "input"
    /\ exprIn.call = "evaluate_expression"
    /\ exprOut' = evaluate_expression(exprIn.expr, exprIn.executor_context)
    /\ exprStep' = "evaluate_expression"
    /\ UNCHANGED <<exprIn, pipeVars, nTiles, xfVars, runVars, indexVars>>

\* the six comparison operators evaluated on the pairs of the input values
Compare ==
    /\ exprStep = "input"
    /\ exprIn.call = "compare"
    /\ exprOut' = [p \in {<<1, 2>>, <<2, 1>>, <<2, 3>>, <<1, 3>>} |->
                      [op \in ComparisonOperators |-> Holds(op, exprIn.values[p[1]], exprIn.values[p[2]])]]
    /\ exprStep' = "compare"
    /\ UNCHANGED <<exprIn, pipeVars, nTiles, xfVars, runVars, indexVars>>

NextExpr ==
    \/ Compile
    \/ Compare
    \/ EvaluateExpression
    \/ Evaluate
    \/ ToBool

SpecExpr == InitExpr /\ [][NextExpr]_vars

(* ======================= properties of the pipeline ==================== *)
\* no stage has failed so far
NoFailure == faults = 0 /\ failLog = <<>> /\ ~stErr /\ ~stPanic

\* the add_tile calls are exactly the tiles 0..n-1 in enumeration order
AllWritten == written = [k \in 1..nTiles |-> k - 1]

\* C1: the add_tile call sequence is, at every moment, the sequence indexes
\* 0..k-1 in ascending order: no gap, no duplicate, no tile out of order.
C1_WriteOrder == \A k \in 1..Len(written) : written[k] = k - 1

\* a later tile waits in the reorder buffer while earlier tiles are written
C1_Witness == Len(written) >= 2 /\ buf # {} /\ next \notin buf

\* C2: in a run where no stage fails the output channel closes, and when it
\* does the reorder buffer is empty and every one of the tiles has been
\* handed to add_tile exactly once.
C2_ClosesComplete ==
    <>(~NoFailure \/ (OutDisconnected /\ buf = {} /\ AllWritten))

\* C3: in a run where no stage fails every stage terminates and
\* process_tiles returns Ok.
C3_ReturnsOk == <>(~NoFailure \/ returned = "Ok")

\* C4: a run where no stage fails returns Ok with the archive finalized
\* exactly once, after the last add_tile call.
C4_FinalizedOnce ==
    <>(~NoFailure \/ (returned = "Ok" /\ finalized = 1 /\ AllWritten))

\* the first result with an error that join_next handed over
FirstErrJoined ==
    LET k == CHOOSE j \in 1..Len(joinLog) :
                 /\ ~joinLog[j].ok
                 /\ \A h \in 1..(j - 1) : joinLog[h].ok
    IN joinLog[k].task

\* C5: once a task has failed process_tiles never returns Ok and does
\* return an error; the error is that of the first failed task the join loop
\* saw, and the join loop takes no further result after it.
C5_FirstError ==
    /\ [](failLog # <<>> => returned # "Ok")
    /\ [](returned = "Err" =>
            /\ \E j \in 1..Len(joinLog) : ~joinLog[j].ok
            /\ retTask = FirstErrJoined
            /\ ~joinLog[Len(joinLog)].ok)
    /\ [][returned # "none" => joinLog' = joinLog]_vars
    /\ (failLog # <<>>) ~> (returned = "Err")

\* several tasks failed and process_tiles returned the first error it saw
C5_Witness == returned = "Err" /\ Len(failLog) >= 2 /\ Len(joinLog) >= 2

\* the tiles the stages before the writer can hold: both channels, plus one
\* tile per reader task and per transformer thread
ReorderWindow == 2 * QUEUE_CAPACITY + NumReaders + NumTransformers

\* C6: the reorder buffer never holds more tiles than a bound fixed by the
\* channel capacities and the number of workers allows.
C6_BufferBounded == Cardinality(buf) <= ReorderWindow

(* ------------------------- filtering properties ------------------------ *)
InLayer(l) == inTile.layers[l]
InFeature(l, f) == inTile.layers[l].features[f]
LayerIndexes == 1..Len(inTile.layers)
FeatureIndexes(l) == 1..Len(inTile.layers[l].features)
RegionIndexes == 1..Len(filterCollection.features)

\* region r intersects feature f, the two geometries taken in one plane as
\* the transform compares them
RegionIntersects(r, l, f) ==
    Intersects(InFeature(l, f).pts, filterCollection.features[r].pts)

\* the LayerFilter of a region for a layer: the layer's own entry, the "*"
\* entry only when the layer has none, nothing when the region has neither
SelectedLayerFilter(layers, layer_name) ==
    IF layer_name \in DOMAIN layers THEN SomeLayerFilter(layers[layer_name])
    ELSE IF "*" \in DOMAIN layers THEN SomeLayerFilter(layers["*"])
    ELSE NoLayerFilter

\* the context of feature f, with the current key of a tag or None
ExecutorContext(l, f, current_key, current_value) ==
    EvaluationContext(InLayer(l).name, geometry_type(InFeature(l, f).kind),
        extract_feature_tags(InFeature(l, f), InLayer(l).keys,
                             InLayer(l).values),
        current_key, current_value)

EvaluatesTrue(expr, context) ==
    /\ expr # NoExpr
    /\ evaluate_expression(expr, context).ok
    /\ evaluate_expression(expr, context).v

\* the feature predicate of region r, resolved for the layer of f, is true
FeaturePredicateTrue(r, l, f) ==
    EvaluatesTrue(SelectedLayerFilter(filterCollection.features[r].layers,
                                      InLayer(l).name).feature,
                  ExecutorContext(l, f, None, None))

\* the tag predicate of region r is true for tag pair j of feature f
TagPredicateTrue(r, l, f, j) ==
    EvaluatesTrue(SelectedLayerFilter(filterCollection.features[r].layers,
                                      InLayer(l).name).tag,
        ExecutorContext(l, f,
            Some(KeyOf(InFeature(l, f).tags, j, InLayer(l).keys)),
            Some(value_to_string(ValueOf(InFeature(l, f).tags, j,
                                         InLayer(l).values)))))

\* the decoded key/value pairs of a feature of a layer
DecodedTags(layer, feature) ==
    [j \in 1..NumPairs(feature.tags) |->
        <<KeyOf(feature.tags, j, layer.keys),
          ValueOf(feature.tags, j, layer.values)>>]

\* the output features of layer l that came from input feature f
OutFeatures(l, f) ==
    {g \in 1..Len(outTile.layers[l].features) :
        outTile.layers[l].features[g].id = InFeature(l, f).id}

Retained(l, f) == OutFeatures(l, f) # {}

TagRetained(l, f, j) ==
    \E g \in OutFeatures(l, f) :
        LET decoded == DecodedTags(outTile.layers[l],
                                   outTile.layers[l].features[g])
        IN \E j2 \in 1..Len(decoded) :
               decoded[j2] = <<KeyOf(InFeature(l, f).tags, j, InLayer(l).keys),
                               ValueOf(InFeature(l, f).tags, j,
                                       InLayer(l).values)>>

DynamicDone ==
    /\ step = "transform_tile_dynamic"
    /\ filterCollection.some
    /\ outTile.status = "Ok"

\* C7: after a filtered transform, a feature is in the output iff no region
\* that intersects it has its feature predicate, resolved for the feature's
\* layer, evaluate true -- whichever position the region has in the
\* collection.
C7_FeatureRetained ==
    DynamicDone =>
        \A l \in LayerIndexes : \A f \in FeatureIndexes(l) :
            Retained(l, f) <=>
                ~\E r \in RegionIndexes :
                    RegionIntersects(r, l, f) /\ FeaturePredicateTrue(r, l, f)

\* C8: after a filtered transform, a tag of a retained feature is in the
\* output iff no region that intersects the feature has its tag predicate,
\* resolved for the feature's layer, evaluate true with that tag's key as the
\* current key.
C8_TagRetained ==
    DynamicDone =>
        \A l \in LayerIndexes : \A f \in FeatureIndexes(l) :
            Retained(l, f) =>
                \A j \in ValidPairs(InFeature(l, f).tags, InLayer(l).keys,
                                    InLayer(l).values) :
                    TagRetained(l, f, j) <=>
                        ~\E r \in RegionIndexes :
                            /\ RegionIntersects(r, l, f)
                            /\ TagPredicateTrue(r, l, f, j)

\* the decision the selected LayerFilter of the probed region gives with
\* predicate `which` ("feature" or "tag")
SelectedDecision(which) ==
    LET region == filterCollection.features[probe.region]
        layer == InLayer(probe.layer)
        feature == InFeature(probe.layer, probe.feature)
        selected == SelectedLayerFilter(region.layers, layer.name)
        expr == IF which = "feature" THEN selected.feature ELSE selected.tag
        current_key ==
            IF which = "feature" THEN None
            ELSE Some(KeyOf(feature.tags, probe.pair, layer.keys))
    IN IF ~selected.some \/ expr = NoExpr THEN Ok(FALSE)
       ELSE evaluate_bool(compile(expr).v,
                          FeatureContext(probe.layer, probe.feature,
                                         current_key))

\* C9: for a region, the LayerFilter is the entry of the feature's layer, the
\* "*" entry only when the layer has no entry; the selected LayerFilter alone
\* decides, also when it lacks the predicate asked for, and a region with
\* neither entry removes nothing.
C9_SelectedFilterDecides ==
    /\ step = "should_remove_feature" =>
           probe.result = SelectedDecision("feature")
    /\ step = "should_remove_tag" => probe.result = SelectedDecision("tag")

\* every tag index of the input tile is in range
AllInRange ==
    \A l \in LayerIndexes : \A f \in FeatureIndexes(l) :
        ValidPairs(InFeature(l, f).tags, InLayer(l).keys, InLayer(l).values)
            = 1..NumPairs(InFeature(l, f).tags)

\* C10: with no filter, the tile that the transform of process_tiles returns
\* has, layer by layer, the features of the input tile with the same
\* key/value pairs.
C10_NoFilterKeepsAll ==
    (/\ step = "transform_tile"
     /\ ~filterCollection.some
     /\ AllInRange
     /\ outTile.status = "Ok") =>
        /\ Len(outTile.layers) = Len(inTile.layers)
        /\ \A l \in LayerIndexes :
            /\ Len(outTile.layers[l].features) = Len(InLayer(l).features)
            /\ \A f \in FeatureIndexes(l) :
                /\ outTile.layers[l].features[f].id = InFeature(l, f).id
                /\ DecodedTags(outTile.layers[l],
                               outTile.layers[l].features[f])
                     = DecodedTags(InLayer(l), InFeature(l, f))

\* a transform call returned a tile
TransformDone ==
    /\ step \in {"transform_tile_dynamic", "transform_tile"}
    /\ outTile.status = "Ok"

OutLayerIndexes == 1..Len(outTile.layers)
OutFeatureIndexes(l) == 1..Len(outTile.layers[l].features)

\* C11: in every layer of a returned tile, every feature's tag list has even
\* length, every key index is below the length of the layer's key dictionary
\* and every value index below the length of its value dictionary.
C11_TagIndexesInRange ==
    TransformDone =>
        \A l \in OutLayerIndexes : \A g \in OutFeatureIndexes(l) :
            LET layer == outTile.layers[l]
                tags == layer.features[g].tags
            IN /\ Len(tags) % 2 = 0
               /\ \A j \in 1..NumPairs(tags) :
                    /\ PairKey(tags, j) < Len(layer.keys)
                    /\ PairVal(tags, j) < Len(layer.values)

\* a returned tile keeps tags of a feature whose input tag list had odd length
C11_Witness ==
    /\ TransformDone
    /\ \E l \in OutLayerIndexes : \E g \in OutFeatureIndexes(l) :
        /\ outTile.layers[l].features[g].tags # <<>>
        /\ \E f \in FeatureIndexes(l) :
            /\ InFeature(l, f).id = outTile.layers[l].features[g].id
            /\ Len(InFeature(l, f).tags) % 2 = 1

\* C12: in every layer of a returned tile, each entry of the key dictionary
\* and each entry of the value dictionary is referenced by a tag of a feature
\* of that layer.
C12_DictionariesTrimmed ==
    TransformDone =>
        \A l \in OutLayerIndexes :
            LET layer == outTile.layers[l] IN
            /\ \A k \in 1..Len(layer.keys) :
                \E g \in OutFeatureIndexes(l) :
                    \E j \in 1..NumPairs(layer.features[g].tags) :
                        PairKey(layer.features[g].tags, j) = k - 1
            /\ \A v \in 1..Len(layer.values) :
                \E g \in OutFeatureIndexes(l) :
                    \E j \in 1..NumPairs(layer.features[g].tags) :
                        PairVal(layer.features[g].tags, j) = v - 1

\* a returned layer has features with tags and fewer keys and values than the
\* input layer: entries used only by removed features or tags are gone
C12_Witness ==
    /\ TransformDone
    /\ \E l \in OutLayerIndexes :
        /\ outTile.layers[l].keys # <<>>
        /\ Len(outTile.layers[l].keys) < Len(InLayer(l).keys)
        /\ Len(outTile.layers[l].values) < Len(InLayer(l).values)
        /\ Len(outTile.layers[l].features) < Len(InLayer(l).features)

\* region r intersects feature f once the region is projected to the tile
TrulyIntersects(r, l, f) ==
    Intersects(InFeature(l, f).pts,
               project_to_tile(filterCollection.features[r].pts,
                               inTile.coords, InLayer(l).extent))

\* C13: after a filtered transform, a feature that no region intersects in
\* tile-local coordinates is in the output with all its tags.
C13_OutsideUnaffected ==
    DynamicDone =>
        \A l \in LayerIndexes : \A f \in FeatureIndexes(l) :
            (~\E r \in RegionIndexes : TrulyIntersects(r, l, f)) =>
                /\ Retained(l, f)
                /\ \A j \in ValidPairs(InFeature(l, f).tags, InLayer(l).keys,
                                       InLayer(l).values) :
                       TagRetained(l, f, j)


(* ==================== properties of run (lib.rs) ======================= *)
\* patterns regex::Regex::new rejects
InvalidPatterns == {"[", "[a-z"}

\* the expression holds a regex-match with a rejected pattern where the
\* compiler looks for an expression
RECURSIVE ContainsInvalidRegex(_)
ContainsInvalidRegex(e) ==
    /\ e.t = "arr"
    /\ Len(e.a) >= 1
    /\ e.a[1].t = "str"
    /\ \/ /\ e.a[1].s = "regex-match"
          /\ Len(e.a) = 3
          /\ e.a[3].t = "str"
          /\ e.a[3].s \in InvalidPatterns
       \/ /\ e.a[1].s \in {"any", "all", "none", "not", "!", "boolean"}
          /\ \E i \in 2..Len(e.a) : ContainsInvalidRegex(e.a[i])

FilterHasInvalidRegex(fc) ==
    /\ fc.some
    /\ \E i \in 1..Len(fc.features) : \E n \in DOMAIN fc.features[i].layers :
           \/ ContainsInvalidRegex(fc.features[i].layers[n].feature)
           \/ ContainsInvalidRegex(fc.features[i].layers[n].tag)

\* C14: a run whose filter holds an invalid regular expression never gets
\* past the compilation of the filter: compile returns an error, no step of
\* the pipeline is taken (no tile read, transformed or written), the output
\* archive is neither created nor finalized, and run does not return Ok.
C14_InvalidRegexStopsRun ==
    FilterHasInvalidRegex(runArgs.filter) =>
        /\ ~FilterCollection_compile(runArgs.filter).ok
        /\ runPc \in {"start", "input", "filter", "returned"}
        /\ PipeInit
        /\ outputFile # "created"
        /\ finalized = 0
        /\ runPc = "returned" => runResult \in {"Err", "Panic"}

\* a run with an existing input and an invalid regular expression in the
\* second region of its filter has returned the compile error
C14_Witness ==
    /\ FilterHasInvalidRegex(runArgs.filter)
    /\ Len(runArgs.filter.features) = 2
    /\ runArgs.input_exists /\ runArgs.filter_exists
    /\ runPc = "returned"
    /\ runResult = "Err"
    /\ outputFile = "absent"


(* ================= properties of the expression compiler =============== *)
\* the arity table of the operators: the argument counts an operator accepts
ArityAccepted(tag, n) ==
    CASE tag \in {"==", "!=", "<", "<=", ">", ">="} -> n = 2
      [] tag \in {"any", "all", "none"} -> n >= 0
      [] tag \in {"not", "!"} -> n = 1
      [] tag \in {"in", "starts-with", "ends-with", "regex-match"} -> n = 2
      [] tag = "regex-capture" -> n >= 3
      [] tag \in {"boolean", "literal", "tag"} -> n = 1
      [] tag \in {"key", "type"} -> n = 0

\* the positions of an operator's arguments that are sub-expressions
SubExpressions(tag, n) ==
    CASE tag \in {"==", "!=", "<", "<=", ">", ">=", "any", "all", "none", "not", "!", "boolean", "in"} -> 1..n
      [] tag \in {"starts-with", "ends-with", "regex-match", "regex-capture"} -> {1}
      [] OTHER -> {}

\* the malformed inputs: an object, an empty array, a head that is not a
\* string or not an operator tag, an argument count outside the arity table,
\* or a malformed sub-expression
RECURSIVE Malformed(_)
Malformed(e) ==
    \/ e.t = "obj"
    \/ /\ e.t = "arr"
       /\ \/ Len(e.a) = 0
          \/ e.a[1].t # "str"
          \/ e.a[1].s \notin OperatorTags
          \/ ~ArityAccepted(e.a[1].s, Len(e.a) - 1)
          \/ \E i \in SubExpressions(e.a[1].s, Len(e.a) - 1) : Malformed(e.a[i + 1])

\* C15: compile returns an error for every malformed input: an empty array,
\* an array whose head is not a string, an unrecognized operator tag, an
\* arity violation, a JSON object, or a malformed sub-expression.
C15_MalformedRejected ==
    (exprStep = "compile" /\ Malformed(exprIn.expr)) => ~exprOut.ok

\* compile has rejected an operator whose own shape is right and whose second
\* sub-expression is malformed
C15_Witness ==
    /\ exprStep = "compile"
    /\ exprIn.expr = JArr(<<JStr("any"), JArr(<<JStr("key")>>), JArr(<<JStr("not")>>)>>)
    /\ ~exprOut.ok


\* the JSON expression is ["literal", [items]]
IsLiteralArray(e) ==
    /\ e.t = "arr"
    /\ Len(e.a) = 2
    /\ e.a[1] = JStr("literal")
    /\ e.a[2].t = "arr"

\* the input is ["in", e, a]
IsInExpression(e) == e.t = "arr" /\ Len(e.a) = 3 /\ e.a[1] = JStr("in")

\* C16: ["in", e, a] compiles only when a compiles to Literal(Array), that is
\* when a is a literal of an array, and the In node then stores the set of
\* the array's distinct elements, equal when kind and payload are equal.
C16_InStoresSet ==
    (exprStep = "compile" /\ IsInExpression(exprIn.expr) /\ exprOut.ok) =>
        /\ IsLiteralArray(exprIn.expr.a[3])
        /\ compile(exprIn.expr.a[3]).v.op = "Literal"
        /\ compile(exprIn.expr.a[3]).v.val.k = "Array"
        /\ exprOut.v.op = "In"
        /\ exprOut.v.set = {from_json_value(exprIn.expr.a[3].a[2].a[i]) : i \in 1..Len(exprIn.expr.a[3].a[2].a)}

\* ["in", ["key"], ["literal", ["park", 1, "park", "1"]]] has compiled to an
\* In node
C16_Witness ==
    /\ exprStep = "compile"
    /\ exprIn.expr = JArr(<<JStr("in"), JArr(<<JStr("key")>>), E_literal_array>>)
    /\ exprOut.ok
    /\ exprOut.v.set = {EV_String("park"), EV_Number(1), EV_String("1")}


(* ================== properties of the expression values ================ *)
\* the coercion table
Coercion(v) ==
    CASE v.k = "Boolean" -> v.b
      [] v.k = "String" -> Len(v.s) > 0
      [] v.k = "Number" -> v.n < 0 \/ v.n > 0
      [] v.k = "Float" -> v.s \notin {"0", "0.0"}
      [] v.k = "Null" -> FALSE
      [] v.k = "Array" -> Len(v.a) > 0

\* C17: to_bool follows the coercion table for every value: Boolean b gives
\* b, String true iff non-empty, Number true iff not 0, Float true unless its
\* rendering is "0" or "0.0", Null false, Array true iff non-empty.
C17_ToBoolTable ==
    exprStep = "to_bool" => exprOut = Ok(Coercion(exprIn.values[1]))

\* to_bool has returned true for the Number -1
C17_Witness ==
    /\ exprStep = "to_bool"
    /\ exprIn.values = <<EV_Number(-1)>>
    /\ exprOut = Ok(TRUE)


(* ================= properties of the compiled executor ================= *)
\* the input is ["boolean", e]
IsBooleanExpression(e) == e.t = "arr" /\ Len(e.a) = 2 /\ e.a[1] = JStr("boolean")

\* the value of the compiled expression in the context of the input
ValueOf_compiled(compiled) ==
    IF compiled.ok THEN Ok(evaluate(compiled.v, exprIn.context)) ELSE Err

LogicalTable(op, vals, out) ==
    LET n == Len(vals)
        all_ok == \A i \in 1..n : vals[i].ok
        first(b) == {i \in 1..n : vals[i] = Ok(b) /\ \A j \in 1..(i - 1) : vals[j] = Ok(~b)}
    IN CASE op = "any" ->
              /\ all_ok => out = Ok(\E i \in 1..n : vals[i].v)
              /\ first(TRUE) # {} => out = Ok(TRUE)
         [] op = "all" ->
              /\ all_ok => out = Ok(\A i \in 1..n : vals[i].v)
              /\ first(FALSE) # {} => out = Ok(FALSE)
         [] op = "none" ->
              all_ok => out = Ok(\A i \in 1..n : ~vals[i].v)
         [] op \in {"not", "!"} ->
              (n = 1 /\ all_ok) => out = Ok(~vals[1].v)

\* C19: any is true iff some child is true (false without children), all is
\* true iff every child is true (true without children), none is true iff
\* every child is false (true without children), not inverts its child; any
\* returns at the first true child and all at the first false child, whatever
\* the children after it are.
C19_LogicalOperators ==
    (exprStep = "evaluate_expression" /\ exprIn.expr \in LogicalInputs) =>
        LogicalTable(exprIn.expr.a[1].s,
                     [i \in 1..(Len(exprIn.expr.a) - 1) |-> evaluate_expression(exprIn.expr.a[i + 1], exprIn.executor_context)],
                     exprOut)

\* any has returned true at its second child, a comparison the context makes
\* true, with a third child that cannot be evaluated
C19_Witness ==
    /\ exprStep = "evaluate_expression"
    /\ exprIn.expr = JArr(<<JStr("any"), JBool(FALSE), E_kind_is_park, JStr("park")>>)
    /\ exprIn.executor_context = Executor_park
    /\ exprOut = Ok(TRUE)


(* ==================== properties of the comparison ===================== *)
\* exactly one of the three holds
ExactlyOne(x, y, z) == (x /\ ~y /\ ~z) \/ (~x /\ y /\ ~z) \/ (~x /\ ~y /\ z)

\* the order laws on the values a, b, c of a Compare call, given the results
\* of the operators on <<a, b>>, <<b, a>>, <<b, c>> and <<a, c>>
OrderLaws(values, out) ==
    LET lt(p) == out[p]["LessThan"]
        eq(p) == out[p]["Equal"]
        gt(p) == out[p]["GreaterThan"]
        le(p) == out[p]["LessThanOrEqual"]
    IN /\ \A p \in DOMAIN out :
            /\ ExactlyOne(lt(p), eq(p), gt(p))
            /\ le(p) = (lt(p) \/ eq(p))
            /\ out[p]["GreaterThanOrEqual"] = (gt(p) \/ eq(p))
            /\ out[p]["NotEqual"] = ~eq(p)
       /\ lt(<<1, 2>>) = gt(<<2, 1>>)
       /\ eq(<<1, 2>>) = eq(<<2, 1>>)
       /\ (le(<<1, 2>>) /\ le(<<2, 3>>)) => le(<<1, 3>>)
       /\ (lt(<<1, 2>>) /\ le(<<2, 3>>)) => lt(<<1, 3>>)
       /\ (eq(<<1, 2>>) /\ eq(<<2, 3>>)) => eq(<<1, 3>>)
       /\ (values[1].k = "Null" /\ values[2].k # "Null") => lt(<<1, 2>>)

\* C20: the comparison used by ==, !=, <, <=, >, >= is a total order on the
\* values of kinds Null, Boolean, Number, Float and String: exactly one of
\* a<b, a=b, a>b holds, the relation is antisymmetric and transitive, also
\* across kinds, and Null is less than every non-null value.
C20_TotalOrder ==
    exprStep = "compare" => OrderLaws(exprIn.values, exprOut)


(* ================= properties of the context terminals ================= *)
\* the terminal reads something the context does not have: a property the
\* feature lacks, or the current key outside a tag evaluation
IsMissing(t, names, current_key) ==
    \/ Len(t.a) = 2 /\ t.a[1] = JStr("tag") /\ t.a[2].t = "str" /\ t.a[2].s \notin names
    \/ t = JArr(<<JStr("key")>>) /\ ~current_key.some

\* e is [op, t, ""] with a terminal t the context does not have
ComparesMissing(e, op, names, current_key) ==
    /\ Len(e.a) = 3
    /\ e.a[1] = JStr(op)
    /\ e.a[3] = JStr("")
    /\ IsMissing(e.a[2], names, current_key)

\* e is ["boolean", t] with a terminal t the context does not have
CoercesMissing(e, names, current_key) ==
    /\ Len(e.a) = 2
    /\ e.a[1] = JStr("boolean")
    /\ IsMissing(e.a[2], names, current_key)

\* C21: ["tag", name] on a feature without the property name, and ["key"]
\* where no current key is set, evaluate to Null, neither to the empty string
\* nor to an error: compared with "" by == the result is false, and coerced by
\* boolean it is false. Stated of the compiled executor and of FilterExecutor.
C21_MissingIsNull ==
    /\ exprStep = "evaluate" =>
          LET names == DOMAIN exprIn.context.properties
              current_key == exprIn.context.current_key
          IN /\ IsMissing(exprIn.expr, names, current_key) => exprOut = EV_Null
             /\ ComparesMissing(exprIn.expr, "==", names, current_key) => exprOut = EV_Boolean(FALSE)
             /\ CoercesMissing(exprIn.expr, names, current_key) => exprOut = EV_Boolean(FALSE)
    /\ exprStep = "evaluate_expression" =>
          LET names == DOMAIN exprIn.executor_context.tags
              current_key == exprIn.executor_context.current_key
          IN /\ ComparesMissing(exprIn.expr, "==", names, current_key) => exprOut = Ok(FALSE)
             /\ CoercesMissing(exprIn.expr, names, current_key) => exprOut = Ok(FALSE)


(* ================== properties of the tag language filter ============== *)
\* the key is name or name:<lang> and the text after the optional colon is
\* neither empty nor ja
LanguageDropped(k) ==
    StartsWith(k, "name") /\ k \notin {"name", "name:", "nameja", "name:ja"}

\* C22: with the one global region whose "*" tag predicate is the tag
\* language filter, the transform succeeds, keeps every feature, and drops a
\* tag iff its key starts with "name" and the text after the optional colon
\* is neither empty nor "ja"; the tag predicate of the region evaluates to
\* exactly that. Stated of both transforms, on tiles whose tag indexes are
\* all in range.
C22_TagLanguageFilter ==
    (filterCollection = SomeFilter(<<R_name_language>>) /\ AllInRange) =>
        /\ step \in {"transform_tile_dynamic", "transform_tile"} =>
              /\ outTile.status = "Ok"
              /\ \A l \in LayerIndexes : \A f \in FeatureIndexes(l) :
                    /\ Retained(l, f)
                    /\ \A j \in 1..NumPairs(InFeature(l, f).tags) :
                          TagRetained(l, f, j) <=> ~LanguageDropped(KeyOf(InFeature(l, f).tags, j, InLayer(l).keys))
        /\ step = "should_remove_tag" =>
              probe.result = Ok(LanguageDropped(KeyOf(InFeature(probe.layer, probe.feature).tags, probe.pair, InLayer(probe.layer).keys)))


(* ==================== properties of the spatial index ================== *)
\* a linear scan over all regions with the precise intersection test
LinearScan(features, geom) ==
    {i \in 1..Len(features) : Intersects(features[i].geometry, geom)}

\* C24: get_filter_features returns exactly the regions whose geometry
\* intersects the query geometry, the set a linear scan with the precise
\* intersection test returns, each region at most once, and no region when
\* the query geometry has no bounding rectangle.
C24_IndexIsExact ==
    indexStep = "get_filter_features" =>
        /\ {indexOut[k] + 1 : k \in DOMAIN indexOut} = LinearScan(indexIn.features, indexIn.geom)
        /\ \A k1, k2 \in DOMAIN indexOut : indexOut[k1] = indexOut[k2] => k1 = k2
        /\ indexIn.geom = {} => indexOut = <<>>

\* the query returned the second region only: the first region's bounding
\* rectangle holds the query point but its geometry does not
C24_Witness ==
    /\ indexStep = "get_filter_features"
    /\ indexIn.geom = {<<0, 1>>}
    /\ indexIn.features = <<CompiledFilterFeature({<<0, 0>>, <<1, 1>>}), CompiledFilterFeature({<<0, 1>>})>>
    /\ indexOut = <<1>>


(* ====================== properties of a failed tile ==================== *)
\* C25: a tile whose transform failed has no output: its index is never on
\* the output channel nor in the reorder buffer, and add_tile is called
\* neither for it nor for any index after it.
C25_FailedTileHasNoOutput ==
    \A i \in failedTiles :
        /\ i \notin SeqRange(outQ)
        /\ i \notin buf
        /\ \A k \in 1..Len(written) : written[k] < i

\* the transform of tile i failed after the tiles before it were written,
\* while a later tile waits in the reorder buffer
C25_Witness ==
    \E i \in failedTiles :
        /\ i >= 1
        /\ Len(written) = i
        /\ \E j \in buf : j > i


(* ======================= properties of the channels ==================== *)
\* every reader task has ended
ReadersEnded == \A r \in Readers : ~ReaderLive(r)

\* C26: each channel becomes disconnected once its producing stage has
\* finished -- the coordinate channel after the enumerator, the input channel
\* after the last reader (no sender handle outlives the readers), the output
\* channel after the transformer stage -- and a consumer's receive loop ends
\* only when its channel is disconnected and empty.
C26_ChannelsDisconnect ==
    /\ [](enumPc # "run" => CoordsDisconnected)
    /\ ReadersEnded ~> InDisconnected
    /\ [](stPc # "run" => OutDisconnected)
    /\ [][(\E r \in Readers : rdPc[r] = "recv" /\ rdPc'[r] = "done") => (CoordsDisconnected /\ coordsQ = <<>>)]_vars
    /\ [][(\E t \in Transformers : trPc[t] = "wait" /\ trPc'[t] = "ret") => (InDisconnected /\ inQ = <<>>)]_vars
    /\ [][(wrPc = "recv" /\ wrPc' = "done") => (OutDisconnected /\ outQ = <<>>)]_vars


(* ================= properties of the rebuilt dictionaries ============== *)
\* the tag list of input feature f after filtering, and the pairs of it that
\* the rebuild loop takes: transform_tile_dynamic rebuilds the in-range pairs
\* of what apply_feature_filters kept, transform_tile the pairs its name
\* rules do not skip
KeptTags(l, f) ==
    IF step = "transform_tile_dynamic" /\ filterCollection.some
    THEN apply_feature_filters(filterCollection.features, InFeature(l, f), InLayer(l).name, InLayer(l).keys, InLayer(l).values).tags
    ELSE InFeature(l, f).tags

KeptPairs(l, f) ==
    IF step = "transform_tile_dynamic"
    THEN ValidPairs(KeptTags(l, f), InLayer(l).keys, InLayer(l).values)
    ELSE {j \in 1..NumPairs(KeptTags(l, f)) : ~name_filtered(KeyOf(KeptTags(l, f), j, InLayer(l).keys))}

\* the pairs S of a tag list, in their order, resolved against dictionaries
ResolvedPairs(tags, keys, values, S) ==
    [k \in 1..Cardinality(S) |->
        LET j == CHOOSE j \in S : Cardinality({i \in S : i < j}) = k - 1
        IN <<KeyOf(tags, j, keys), ValueOf(tags, j, values)>>]

NoDuplicates(seq) == \A i, j \in 1..Len(seq) : seq[i] = seq[j] => i = j

\* C27: interning preserves the meaning of the tags: for every retained
\* feature, its new tag list resolved against the rebuilt dictionaries gives
\* the same sequence of (key, typed value) pairs as its kept tags resolved
\* against the original dictionaries; the rebuilt key dictionary holds no key
\* twice and the rebuilt value dictionary no value twice.
C27_InterningPreservesTags ==
    TransformDone =>
        \A l \in LayerIndexes :
            /\ NoDuplicates(outTile.layers[l].keys)
            /\ NoDuplicates(outTile.layers[l].values)
            /\ \A f \in FeatureIndexes(l) : \A g \in OutFeatures(l, f) :
                  DecodedTags(outTile.layers[l], outTile.layers[l].features[g])
                      = ResolvedPairs(KeptTags(l, f), InLayer(l).keys, InLayer(l).values, KeptPairs(l, f))

\* two retained features share an entry of the rebuilt key dictionary, and
\* the second has its tags renumbered
C27_Witness ==
    /\ TransformDone
    /\ \E l \in LayerIndexes :
          /\ Len(outTile.layers[l].features) = 2
          /\ LET first == outTile.layers[l].features[1].tags
                 second == outTile.layers[l].features[2].tags
             IN /\ first # <<>> /\ second # <<>>
                /\ \E j1 \in 1..NumPairs(first), j2 \in 1..NumPairs(second) : PairKey(first, j1) = PairKey(second, j2)
                /\ \E f \in FeatureIndexes(l) :
                      /\ OutFeatures(l, f) = {2}
                      /\ second # InFeature(l, f).tags
                      /\ Len(second) = Len(InFeature(l, f).tags)


(* ==================== what the transform leaves alone ================== *)
\* the input feature an output feature of layer l came from
SourceOf(l, g) ==
    CHOOSE f \in FeatureIndexes(l) : InFeature(l, f).id = outTile.layers[l].features[g].id

\* C28: the transform changes only each layer's key dictionary, value
\* dictionary, feature list and the tag lists of retained features: the
\* output tile has the same layers in the same order with the same name and
\* extent (also a layer that lost all its features), and the retained
\* features keep their relative order, id, geometry type and geometry.
C28_OnlyTagsAndDictionariesChange ==
    TransformDone =>
        /\ Len(outTile.layers) = Len(inTile.layers)
        /\ \A l \in LayerIndexes :
              LET out == outTile.layers[l] IN
              /\ [out EXCEPT !.keys = InLayer(l).keys, !.values = InLayer(l).values, !.features = InLayer(l).features] = InLayer(l)
              /\ \A g \in 1..Len(out.features) :
                    /\ \E f \in FeatureIndexes(l) : InFeature(l, f).id = out.features[g].id
                    /\ [out.features[g] EXCEPT !.tags = InFeature(l, SourceOf(l, g)).tags] = InFeature(l, SourceOf(l, g))
              /\ \A g1, g2 \in 1..Len(out.features) : g1 < g2 => SourceOf(l, g1) < SourceOf(l, g2)

\* of the two layers of a tile the first lost its only feature and stays,
\* empty, before the second, whose feature is retained with fewer tags
C28_Witness ==
    /\ TransformDone
    /\ Len(inTile.layers) = 2
    /\ Len(InLayer(1).features) = 1
    /\ outTile.layers[1].features = <<>>
    /\ Len(outTile.layers[2].features) = 1
    /\ Len(outTile.layers[2].features[1].tags) < Len(InFeature(2, 1).tags)


(* =================== properties of the typed values ==================== *)
\* C29: an int64, sint64 or uint64 property value v becomes Number(n) with n
\* numerically equal to v, over the whole range of each type, so that
\* [">", ["tag", k], 0] is true exactly when v is greater than 0.
C29_IntegersPreserved ==
    (exprStep = "evaluate" /\ "count" \in DOMAIN exprIn.context.properties) =>
        LET v == exprIn.context.properties["count"] IN
        /\ exprIn.expr = E_tag_count => exprOut = EV_Number(v.n)
        /\ exprIn.expr = E_count_positive => exprOut = EV_Boolean(v.n > 0)


(* ================= properties of malformed tag lists =================== *)
\* C30: on a decoded tile the transform does not panic: where a tag list has
\* odd length or holds a key or value index outside the layer's
\* dictionaries, the transform skips the tag or returns an error, and never
\* indexes a dictionary out of range. Stated of the transform process_tiles
\* applies, with a tile compression it supports, and of transform_tile_dynamic.
C30_NoPanicOnBadIndexes ==
    /\ (step = "transform_tile" /\ tileCompression \in {"Gzip", "None"}) => outTile.status # "Panic"
    /\ step = "transform_tile_dynamic" => outTile.status # "Panic"

====
